---- MODULE Spec2Model ----
(***************************************************************************)
(* Model of the graph explorer: the Graph module (rendering, selection     *)
(* list, traversal and highlight classes), the App module (dropdown, view  *)
(* mode, hop limit controls) and the Parser module (node/edge extraction). *)
(*                                                                         *)
(* Node identifiers are positive integers; 0 stands for the empty string   *)
(* of the "Select a node..." option.  An edge is a pair <<source,target>>. *)
(* The DOM is the rendered SVG: node elements keyed by id, edge elements   *)
(* in document order, cluster elements, each carrying a set of CSS classes.*)
(***************************************************************************)
EXTENDS Integers, Sequences, FiniteSets, TLC

\* An intermediate value that is used many times is bound as the only element
\* of a set (CHOOSE result \in {f(x) : x \in {e}} : TRUE, or \E x \in {e}), so
\* that it is evaluated once.

VARIABLES
    currentDotSource,  \* Graph.currentDotSource
    nodes,             \* Graph.nodes   (parsed node list)
    edges,             \* Graph.edges   (parsed edge list)
    currentSelection,  \* Graph.currentSelection
    appNodes,          \* App.nodes
    appEdges,          \* App.edges
    selectValue,       \* #node-select value (0 = "")
    viewMode,          \* checked input[name="view-mode"]
    hopLimit,          \* #hop-limit slider value
    unlimitedHops,     \* #unlimited-hops checked
    svg,               \* rendered SVG structure (node, edge, cluster elements)
    nodeCls,           \* classes of each .node element
    edgeCls,           \* classes of each .edge element
    clusterCls,        \* classes of each .cluster element
    edgeStyle,         \* inline stroke-opacity of each .edge element's path
    rendering,         \* source handed to the renderer whose render has not settled
    lastEvent,         \* the input event handled last (history)
    probe              \* arguments and result of the last direct call of a function

vars == <<currentDotSource, nodes, edges, currentSelection, appNodes, appEdges,
          selectValue, viewMode, hopLimit, unlimitedHops, svg, nodeCls, edgeCls,
          clusterCls, edgeStyle, rendering, lastEvent, probe>>

\* ------------------------------------------------------------------ bounds

\* Largest slider position explored (the real slider goes up to 10).
MaxSlider == 2
\* Number of node ids of the exhaustively enumerated small graphs.
NumNodes == 3
\* Largest number of edges of the exhaustively enumerated small graphs.
MaxEdges == 3
\* Longest selection list handed to applySelections directly.
MaxSelections == 2
\* Hop bounds tried by the traversal runs, 0..MaxProbeHops plus the sentinels.
MaxProbeHops == 3

\* --------------------------------------------------------- program constants

NoNode == 0
SliderMin == 1
DefaultMaxHops == 5
UnlimitedHopsSentinel == 100
\* Number.MAX_SAFE_INTEGER is 2^53 - 1; the model uses the largest integer of
\* the model checker, which likewise exceeds every path length of a graph here.
MAX_SAFE_INTEGER == 2147483647

ViewModes == {"all", "single", "bidirectional", "downstream", "upstream"}

\* The number NaN, what parseInt gives for a text without leading digits. It
\* is kept apart from every hop count; the code tests for it with isNaN before
\* it compares.
NaN == -2147483647
IsNaN(x) == x = NaN

\* parseInt(text) on the values a hop-limit control is given here: leading
\* digits with an optional sign are read, the rest is dropped.
parseInt(text) ==
    IF text = "-1" THEN -1
    ELSE IF text = "0" THEN 0
    ELSE IF text = "1" THEN 1
    ELSE IF text \in {"2", "2.5"} THEN 2
    ELSE NaN

\* ------------------------------------------------------------------ helpers

Range(s) == {s[i] : i \in DOMAIN s}

Contains(s, x) == \E i \in DOMAIN s : s[i] = x

\* The pairs of S in lexicographic order.
PairBefore(x, y) == x[1] < y[1] \/ (x[1] = y[1] /\ x[2] < y[2])

SetToSeq(S) ==
    [i \in 1..Cardinality(S) |->
        CHOOSE x \in S : Cardinality({y \in S : PairBefore(y, x)}) = i - 1]

\* ------------------------------------------------------------------ Parser

\* A DOT source is a sequence of statements
\*   [kind |-> "node", id, attrs]              "id" [attrs]   (attrs "none": "id";)
\*   [kind |-> "edge", source, target, attrs]  "source" -> "target" [attrs]
\* with attrs one of "none" (no bracket block), "plain", "invis" (style=invis),
\* the clusters the renderer draws for its subgraphs, whether it already
\* carries layout settings, and whether the layout engine accepts it.

\* nodeRegex /"([^"]+)"\s*\[([^\]]+)\]/g: every quoted identifier directly
\* followed by a bracket block, which includes the target of an edge statement
\* that carries attributes.
HasAttrs(st) == st.attrs # "none"

ParseNodes(stmts) ==
    LET matches == SelectSeq(stmts, HasAttrs)
    IN  [i \in DOMAIN matches |->
            [id    |-> IF matches[i].kind = "node" THEN matches[i].id ELSE matches[i].target,
             attrs |-> matches[i].attrs]]

\* edgeRegex /"([^"]+)"\s*->\s*"([^"]+)"/g
IsEdgeStmt(st) == st.kind = "edge"

ParseEdges(stmts) ==
    LET matches == SelectSeq(stmts, IsEdgeStmt)
    IN  [i \in DOMAIN matches |->
            [source |-> matches[i].source, target |-> matches[i].target]]

ParseDotSource(dotSource) ==
    [nodes |-> ParseNodes(dotSource.stmts), edges |-> ParseEdges(dotSource.stmts)]

\* ---------------------------------------------------------------- renderer

ErrorNodeId == 99

StmtEdges(stmts) ==
    LET es == SelectSeq(stmts, IsEdgeStmt)
    IN  [i \in DOMAIN es |-> <<es[i].source, es[i].target>>]

StmtNodeIds(stmts) ==
    UNION {IF stmts[i].kind = "node" THEN {stmts[i].id}
           ELSE {stmts[i].source, stmts[i].target} : i \in DOMAIN stmts}

\* What the layout engine draws for an accepted source: one .node element per
\* identifier (its title is the id), one .edge element per edge statement (its
\* title is "source->target"), one .cluster element per subgraph.
RenderDot(dotSource) ==
    [nodes    |-> StmtNodeIds(dotSource.stmts),
     edges    |-> StmtEdges(dotSource.stmts),
     clusters |-> dotSource.clusters]

\* showRenderingError: digraph G { error [label="Rendering Error..."]; }
ErrorSvg == [nodes |-> {ErrorNodeId}, edges |-> <<>>, clusters |-> <<>>]

\* The inline stroke-opacity of an edge's path: unset on a fresh element, "1"
\* or "0.3" once updateView has styled it (it sets the stroke width and the
\* fill opacity of the edge's texts at the same places).
NoStyle == ""
EdgeStyles == {NoStyle, "1", "0.3"}

\* Freshly drawn elements carry none of the highlight classes and no inline
\* style.
NeutralCls(g) ==
    [node      |-> [n \in g.nodes |-> {}],
     edge      |-> [i \in DOMAIN g.edges |-> {}],
     cluster   |-> [i \in DOMAIN g.clusters |-> {}],
     edgeStyle |-> [i \in DOMAIN g.edges |-> NoStyle]]

\* selection.classed(name, value)
Classed(classes, name, value) ==
    IF value THEN classes \cup {name} ELSE classes \ {name}

\* ------------------------------------------------------------ Graph module

\* getNodeId / getEdgeNodes read the <title> of an element; in the model an
\* element is identified by what its title parses to.
getEdgeNodes(i) == [source |-> svg.edges[i][1], target |-> svg.edges[i][2]]

\* Seeded fault: a missing entry falls back to the entry of some node.
LookupFallsBackToAnEntry(adj, id) ==
    IF id \in DOMAIN adj THEN adj[id]
    ELSE IF DOMAIN adj = {} THEN <<>>
    ELSE adj[CHOOSE n \in DOMAIN adj : TRUE]

\* connections.outgoing[id] || []
Lookup(adj, id) == IF id \in DOMAIN adj THEN adj[id] ELSE <<>>

\* "Ensure arrays exist" + "Add connection if not already added"
AddConnection(connections, source, target) ==
    LET out == Lookup(connections.outgoing, source)
        inc == Lookup(connections.incoming, target)
    IN  [outgoing |-> (source :> (IF Contains(out, target) THEN out ELSE Append(out, target)))
                      @@ connections.outgoing,
         incoming |-> (target :> (IF Contains(inc, source) THEN inc ELSE Append(inc, source)))
                      @@ connections.incoming]

\* The body of edges.forEach(edge => ...): an edge without source or target,
\* or a self-loop, is skipped.
AddParsedEdge(connections, edge) ==
    IF edge.source = NoNode \/ edge.target = NoNode \/ edge.source = edge.target
    THEN connections
    ELSE AddConnection(connections, edge.source, edge.target)

\* The body of d3.selectAll(".edge").each(...), the fallback over the
\* rendered edges.
AddDomEdge(connections, edgeNodes) ==
    IF edgeNodes.source = edgeNodes.target
    THEN connections
    ELSE AddConnection(connections, edgeNodes.source, edgeNodes.target)

\* The two loops, over elements lo..hi in order. The range is split in halves
\* and the result of the first half is bound before the second half runs, so
\* that a long edge list does not nest deeply.
RECURSIVE ForEachParsedEdge(_, _, _)
ForEachParsedEdge(connections, lo, hi) ==
    IF lo > hi THEN connections
    ELSE IF lo = hi THEN AddParsedEdge(connections, edges[lo])
    ELSE LET mid == (lo + hi) \div 2
         IN  CHOOSE result \in {ForEachParsedEdge(firstHalf, mid + 1, hi) :
                                   firstHalf \in {ForEachParsedEdge(connections, lo, mid)}} : TRUE

RECURSIVE ForEachDomEdge(_, _, _)
ForEachDomEdge(connections, lo, hi) ==
    IF lo > hi THEN connections
    ELSE IF lo = hi THEN AddDomEdge(connections, getEdgeNodes(lo))
    ELSE LET mid == (lo + hi) \div 2
         IN  CHOOSE result \in {ForEachDomEdge(firstHalf, mid + 1, hi) :
                                   firstHalf \in {ForEachDomEdge(connections, lo, mid)}} : TRUE

getGraphConnections ==
    LET init == [outgoing |-> [n \in svg.nodes |-> <<>>],
                 incoming |-> [n \in svg.nodes |-> <<>>]]
    IN  CHOOSE result \in {ForEachDomEdge(parsed, 1, Len(svg.edges)) :
                               parsed \in {ForEachParsedEdge(init, 1, Len(edges))}} : TRUE

\* The body of "for (const neighborId of neighbors)" in traverseConnections.
RECURSIVE VisitNeighbors(_, _, _, _, _, _)
VisitNeighbors(direction, startNodeId, currentId, distance, neighbors, t) ==
    IF neighbors = <<>> THEN t
    ELSE LET neighborId == Head(neighbors)
             edgeId == IF direction = "downstream"
                       THEN <<currentId, neighborId>>
                       ELSE <<neighborId, currentId>>
             t1 == [t EXCEPT !.edgesToHighlight = @ \cup {edgeId},
                             !.directEdges = IF currentId = startNodeId
                                             THEN @ \cup {edgeId} ELSE @]
             t2 == IF neighborId \notin DOMAIN t1.visited
                      \/ t1.visited[neighborId] > distance + 1
                   THEN [t1 EXCEPT !.nodesToHighlight = @ \cup {neighborId},
                                   !.visited = (neighborId :> distance + 1) @@ @,
                                   !.queue = Append(@, [id |-> neighborId,
                                                        distance |-> distance + 1])]
                   ELSE t1
         IN  CHOOSE result \in
                 {VisitNeighbors(direction, startNodeId, currentId, distance,
                                 Tail(neighbors), next) : next \in {t2}} : TRUE

\* Seeded fault: the loop iteration with the hop cut-off one hop late
\* ("distance > maxHops" instead of "distance >= maxHops").
TraverseIterationLateCutoff(direction, startNodeId, maxHops, connections, t) ==
    LET cur == Head(t.queue)
        t0  == [t EXCEPT !.queue = Tail(@)]
    IN  IF cur.distance > maxHops
        THEN t0
        ELSE LET neighbors == IF direction = "downstream"
                              THEN Lookup(connections.outgoing, cur.id)
                              ELSE Lookup(connections.incoming, cur.id)
             IN  VisitNeighbors(direction, startNodeId, cur.id, cur.distance,
                                neighbors, t0)

\* Seeded fault: the loop iteration without "queue.shift()": the entry is
\* read but stays at the head of the queue.
TraverseIterationNeverDequeues(direction, startNodeId, maxHops, connections, t) ==
    LET cur == Head(t.queue)
    IN  IF cur.distance >= maxHops
        THEN t
        ELSE LET neighbors == IF direction = "downstream"
                              THEN Lookup(connections.outgoing, cur.id)
                              ELSE Lookup(connections.incoming, cur.id)
             IN  VisitNeighbors(direction, startNodeId, cur.id, cur.distance,
                                neighbors, t)

\* One iteration of the "while (queue.length > 0)" loop of
\* traverseConnections (the queue is not empty).
TraverseIteration(direction, startNodeId, maxHops, connections, t) ==
    LET cur == Head(t.queue)
        t0  == [t EXCEPT !.queue = Tail(@)]
    IN  IF cur.distance >= maxHops
        THEN t0
        ELSE LET neighbors == IF direction = "downstream"
                              THEN Lookup(connections.outgoing, cur.id)
                              ELSE Lookup(connections.incoming, cur.id)
             IN  VisitNeighbors(direction, startNodeId, cur.id, cur.distance,
                                neighbors, t0)

\* The loop, run until the queue is empty (the state after an iteration is
\* bound, so evaluated once, before the loop goes on).
RECURSIVE TraverseLoop(_, _, _, _, _)
TraverseLoop(direction, startNodeId, maxHops, connections, t) ==
    IF t.queue = <<>> THEN t
    ELSE CHOOSE result \in
             {TraverseLoop(direction, startNodeId, maxHops, connections, next) :
                next \in {TraverseIteration(direction, startNodeId, maxHops, connections, t)}} :
             TRUE

\* Seeded fault: traverseConnections starts from an empty node set instead
\* of the set its caller passes (which holds the start node).
TraverseStartDropsNodes(startNodeId, nodesToHighlight, edgesToHighlight, directEdges) ==
    [queue            |-> <<[id |-> startNodeId, distance |-> 0]>>,
     visited          |-> (startNodeId :> 0),
     nodesToHighlight |-> {},
     edgesToHighlight |-> edgesToHighlight,
     directEdges      |-> directEdges]

\* The locals of traverseConnections before its loop: the visited map, the
\* queue, and the three sets the caller passes (modified in place).
TraverseStart(startNodeId, nodesToHighlight, edgesToHighlight, directEdges) ==
    [queue            |-> <<[id |-> startNodeId, distance |-> 0]>>,
     visited          |-> (startNodeId :> 0),
     nodesToHighlight |-> nodesToHighlight,
     edgesToHighlight |-> edgesToHighlight,
     directEdges      |-> directEdges]

traverseConnections(direction, startNodeId, maxHops, connections, nodesToHighlight, edgesToHighlight, directEdges) ==
    CHOOSE result \in
        {TraverseLoop(direction, startNodeId, maxHops, connections, t) :
           t \in {TraverseStart(startNodeId, nodesToHighlight, edgesToHighlight,
                                directEdges)}} : TRUE

\* The legend test of highlightLegendElements and updateClusterHighlighting:
\* the cluster's id attribute includes "legend" or "Legend".
IsLegend(cluster) == cluster.legend

\* Seeded fault: updateClusterHighlighting without "wasHighlighted": a
\* cluster follows the selection processed last.
updateClusterHighlightingOfLastOnly(cluster, nodesToHighlight) ==
    [i \in DOMAIN cluster |->
        IF IsLegend(svg.clusters[i]) THEN cluster[i]
        ELSE LET containsHighlightedNode ==
                     \E n \in svg.clusters[i].nodes : n \in nodesToHighlight
             IN  Classed(Classed(cluster[i], "highlighted-cluster",
                                 containsHighlightedNode),
                         "faded-cluster", ~containsHighlightedNode)]

\* updateClusterHighlighting(nodesToHighlight), on the cluster classes.
updateClusterHighlighting(cluster, nodesToHighlight) ==
    [i \in DOMAIN cluster |->
        IF IsLegend(svg.clusters[i]) THEN cluster[i]
        ELSE LET containsHighlightedNode ==
                     \E n \in svg.clusters[i].nodes : n \in nodesToHighlight
                 wasHighlighted == "highlighted-cluster" \in cluster[i]
             IN  Classed(Classed(cluster[i], "highlighted-cluster",
                                 containsHighlightedNode \/ wasHighlighted),
                         "faded-cluster",
                         ~containsHighlightedNode /\ ~wasHighlighted)]

\* Seeded fault: an invalid hop bound is replaced by one hop, not by the default.
NormalizeMaxHopsDefaultsToOne(maxHops) ==
    IF IsNaN(maxHops) \/ maxHops <= 0 THEN 1 ELSE maxHops

\* Seeded fault: a hop bound of one is replaced by the default too.
NormalizeMaxHopsOneIsInvalid(maxHops) ==
    IF maxHops <= 1 THEN DefaultMaxHops ELSE maxHops

\* "Ensure maxHops is a valid number": undefined, NaN, zero and negative
\* values give the default.
NormalizeMaxHops(maxHops) ==
    IF IsNaN(maxHops) \/ maxHops <= 0 THEN DefaultMaxHops ELSE maxHops

\* Seeded fault: only the outgoing connections of the selected node are
\* added, the incoming ones are forgotten.
ViewSetsSuccessorsOnly(selectedNodeId, mode, maxHops) ==
    LET out == Lookup(getGraphConnections.outgoing, selectedNodeId)
        es  == {<<selectedNodeId, out[i]>> : i \in DOMAIN out}
    IN  [nodesToHighlight |-> {selectedNodeId} \cup Range(out),
         edgesToHighlight |-> es,
         directEdges      |-> es]

\* The sets updateView computes before it touches the DOM (single mode: the
\* direct connections only; the other modes: traversal).
ViewSets(selectedNodeId, mode, maxHops) ==
    CHOOSE result \in {
    LET out  == Lookup(connections.outgoing, selectedNodeId)
        inc  == Lookup(connections.incoming, selectedNodeId)
        seed == [nodesToHighlight |-> {selectedNodeId},
                 edgesToHighlight |-> {},
                 directEdges      |-> {}]
    IN  IF mode = "single"
        THEN LET es == {<<selectedNodeId, out[i]>> : i \in DOMAIN out}
                       \cup {<<inc[i], selectedNodeId>> : i \in DOMAIN inc}
             IN  [nodesToHighlight |-> {selectedNodeId} \cup Range(out) \cup Range(inc),
                  edgesToHighlight |-> es,
                  directEdges      |-> es]
        ELSE LET d == IF mode \in {"downstream", "bidirectional"}
                      THEN traverseConnections("downstream", selectedNodeId, maxHops,
                               connections, seed.nodesToHighlight,
                               seed.edgesToHighlight, seed.directEdges)
                      ELSE seed
                 u == IF mode \in {"upstream", "bidirectional"}
                      THEN traverseConnections("upstream", selectedNodeId, maxHops,
                               connections, d.nodesToHighlight,
                               d.edgesToHighlight, d.directEdges)
                      ELSE d
             IN  [nodesToHighlight |-> u.nodesToHighlight,
                  edgesToHighlight |-> u.edgesToHighlight,
                  directEdges      |-> u.directEdges]
    : connections \in {getGraphConnections}} : TRUE

\* edgeElementMap.get(edgeId): the last .edge element with that title.
EdgeElement(edgeId) ==
    LET S == {i \in DOMAIN svg.edges : svg.edges[i] = edgeId}
    IN  IF S = {} THEN 0 ELSE CHOOSE i \in S : \A j \in S : j <= i

\* Graph.updateView(selectedNodeId, viewMode, maxHops) on the classes and
\* styles given.
updateView(classes, selectedNodeId, mode, maxHopsArg) ==
    IF selectedNodeId = NoNode \/ mode = "all" THEN classes
    ELSE CHOOSE result \in {
    LET node1 == [n \in DOMAIN cls.node |->
                    LET isHighlighted  == n \in v.nodesToHighlight
                        isSelected     == n = selectedNodeId
                        wasHighlighted == "highlighted" \in cls.node[n]
                    IN  Classed(Classed(Classed(cls.node[n],
                            "highlighted", isHighlighted \/ wasHighlighted),
                            "faded", ~isHighlighted /\ ~wasHighlighted),
                            "selected", isSelected \/ "selected" \in cls.node[n])]
        edge1 == [i \in DOMAIN cls.edge |->
                    IF svg.edges[i] \in v.edgesToHighlight /\ EdgeElement(svg.edges[i]) = i
                    THEN Classed(Classed(Classed(cls.edge[i],
                            "highlighted", TRUE),
                            "faded", FALSE),
                            "selected-arrow", svg.edges[i] \in v.directEdges)
                    ELSE cls.edge[i]]
        edge2 == [i \in DOMAIN cls.edge |->
                    IF "highlighted" \notin edge1[i]
                    THEN Classed(edge1[i], "faded", TRUE)
                    ELSE edge1[i]]
        style1 == [i \in DOMAIN cls.edge |->
                    IF svg.edges[i] \in v.edgesToHighlight /\ EdgeElement(svg.edges[i]) = i
                    THEN "1"
                    ELSE cls.edgeStyle[i]]
        style2 == [i \in DOMAIN cls.edge |->
                    IF "highlighted" \notin edge1[i] THEN "0.3" ELSE style1[i]]
    IN  [node      |-> node1,
         edge      |-> edge2,
         cluster   |-> updateClusterHighlighting(cls.cluster, v.nodesToHighlight),
         edgeStyle |-> style2]
    : cls \in {classes},
      v \in {ViewSets(selectedNodeId, mode, NormalizeMaxHops(maxHopsArg))}} : TRUE

\* Seeded fault: resetHighlights flips the "faded" class of every edge instead
\* of removing it.
resetHighlightsTogglesFaded(classes) ==
    CHOOSE result \in {
    [node      |-> [n \in DOMAIN cls.node |-> cls.node[n] \ {"highlighted", "faded", "selected"}],
     edge      |-> [i \in DOMAIN cls.edge |->
                       IF "faded" \in cls.edge[i]
                       THEN cls.edge[i] \ {"highlighted", "faded", "selected-arrow"}
                       ELSE (cls.edge[i] \ {"highlighted", "selected-arrow"}) \cup {"faded"}],
     cluster   |-> [i \in DOMAIN cls.cluster |->
                       cls.cluster[i] \ {"highlighted-cluster", "faded-cluster"}],
     edgeStyle |-> cls.edgeStyle]
    : cls \in {classes}} : TRUE

\* resetHighlights(): the classes are removed; the inline styles are not
\* touched.
resetHighlights(classes) ==
    CHOOSE result \in {
    [node      |-> [n \in DOMAIN cls.node |-> cls.node[n] \ {"highlighted", "faded", "selected"}],
     edge      |-> [i \in DOMAIN cls.edge |-> cls.edge[i] \ {"highlighted", "faded", "selected-arrow"}],
     cluster   |-> [i \in DOMAIN cls.cluster |->
                       cls.cluster[i] \ {"highlighted-cluster", "faded-cluster"}],
     edgeStyle |-> cls.edgeStyle]
    : cls \in {classes}} : TRUE

\* Seeded fault: highlightLegendElements adds the highlight classes without
\* removing the faded ones.
highlightLegendElementsKeepsFaded(classes) ==
    CHOOSE result \in {
    LET legends == {i \in DOMAIN svg.clusters : IsLegend(svg.clusters[i])}
        inLegendN(n) == \E i \in legends : n \in svg.clusters[i].nodes
        inLegendE(e) == \E i \in legends : e \in svg.clusters[i].edges
    IN  [node    |-> [n \in DOMAIN cls.node |->
                        IF inLegendN(n) THEN Classed(cls.node[n], "highlighted", TRUE)
                        ELSE cls.node[n]],
         edge    |-> [e \in DOMAIN cls.edge |->
                        IF inLegendE(e) THEN Classed(cls.edge[e], "highlighted", TRUE)
                        ELSE cls.edge[e]],
         cluster |-> [i \in DOMAIN cls.cluster |->
                        IF i \in legends
                        THEN Classed(cls.cluster[i], "highlighted-cluster", TRUE)
                        ELSE cls.cluster[i]],
         edgeStyle |-> cls.edgeStyle]
    : cls \in {classes}} : TRUE

\* highlightLegendElements()
highlightLegendElements(classes) ==
    CHOOSE result \in {
    LET legends == {i \in DOMAIN svg.clusters : IsLegend(svg.clusters[i])}
        inLegendN(n) == \E i \in legends : n \in svg.clusters[i].nodes
        inLegendE(e) == \E i \in legends : e \in svg.clusters[i].edges
    IN  [node    |-> [n \in DOMAIN cls.node |->
                        IF inLegendN(n)
                        THEN Classed(Classed(cls.node[n], "highlighted", TRUE), "faded", FALSE)
                        ELSE cls.node[n]],
         edge    |-> [e \in DOMAIN cls.edge |->
                        IF inLegendE(e)
                        THEN Classed(Classed(cls.edge[e], "highlighted", TRUE), "faded", FALSE)
                        ELSE cls.edge[e]],
         cluster |-> [i \in DOMAIN cls.cluster |->
                        IF i \in legends
                        THEN Classed(Classed(cls.cluster[i], "highlighted-cluster", TRUE),
                                     "faded-cluster", FALSE)
                        ELSE cls.cluster[i]],
         edgeStyle |-> cls.edgeStyle]
    : cls \in {classes}} : TRUE

\* Seeded fault: only the last selection of the list is drawn.
ForEachSelectionLastOnly(cls, selections) ==
    IF selections = <<>> THEN cls
    ELSE LET selection == selections[Len(selections)]
         IN  updateView(cls, selection.nodeId, selection.viewMode, selection.maxHops)

\* currentSelection.forEach(selection => updateView(...))
RECURSIVE ForEachSelection(_, _)
ForEachSelection(cls, selections) ==
    IF selections = <<>> THEN cls
    ELSE LET selection == Head(selections)
         IN  CHOOSE result \in
                 {ForEachSelection(next, Tail(selections)) :
                    next \in {updateView(cls, selection.nodeId, selection.viewMode,
                                         selection.maxHops)}} : TRUE

\* applySelections() for the selection list given.
applySelections(cls, selections) ==
    highlightLegendElements(ForEachSelection(resetHighlights(cls), selections))

\* makeGraphDeterministic: a source without layout settings gets them inserted
\* after the graph header; its statements are untouched.
makeGraphDeterministic(dotSource) ==
    IF dotSource.hasLayout THEN dotSource
    ELSE [dotSource EXCEPT !.hasLayout = TRUE]

\* -------------------------------------------------------------- App module

\* populateNodeSelect: one option per parsed node that is not invisible.
SelectOptions(ns) == {ns[i].id : i \in {j \in DOMAIN ns : ns[j].attrs # "invis"}}

\* serviceSelect.value = nodeId: a value without a matching option leaves the
\* dropdown on no option, and its value reads "".
SetSelectValue(ns, nodeId) == IF nodeId \in SelectOptions(ns) THEN nodeId ELSE NoNode

\* App.updateView(): clears every class (the classes resetHighlights clears,
\* with the same three selections), then asks Graph.updateView for the
\* node of the dropdown.  Graph is a top-level const and its public API has no
\* currentSelection, so "window.Graph && window.Graph.currentSelection" is
\* falsy and the selection list is left alone.
AppUpdateView(cls, selectedNodeId, mode, slider, unlimited) ==
    LET maxHops == IF unlimited THEN MAX_SAFE_INTEGER ELSE slider
        cleared == resetHighlights(cls)
    IN  IF selectedNodeId # NoNode
        THEN updateView(cleared, selectedNodeId, mode, maxHops)
        ELSE cleared

\* ------------------------------------------------------------------ sources

NodeStmt(id, attrs) == [kind |-> "node", id |-> id, attrs |-> attrs]
EdgeStmt(s, t, attrs) == [kind |-> "edge", source |-> s, target |-> t, attrs |-> attrs]
Cluster(legend, ns, es) == [legend |-> legend, nodes |-> ns, edges |-> es]

\* One declared node, an edge to an undeclared one (which therefore gets no
\* dropdown option), a labelled edge back, a plain cluster and a legend.
SourceDeclared ==
    [stmts     |-> <<NodeStmt(1, "plain"), EdgeStmt(1, 2, "none"), EdgeStmt(2, 1, "plain")>>,
     clusters  |-> <<Cluster(FALSE, {1}, {}), Cluster(TRUE, {2}, {})>>,
     hasLayout |-> FALSE,
     valid     |-> TRUE]

\* A source the layout engine rejects.
SourceRejected ==
    [stmts     |-> <<NodeStmt(2, "plain"), EdgeStmt(2, 1, "none")>>,
     clusters  |-> <<>>,
     hasLayout |-> TRUE,
     valid     |-> FALSE]

Sources == {SourceDeclared, SourceRejected}

\* ------------------------------------------------------------------- state

EmptySvg == [nodes |-> {}, edges |-> <<>>, clusters |-> <<>>]

Idle == [kind |-> "idle", source |-> SourceDeclared]
RenderOf(dotSource) == [kind |-> "dot", source |-> dotSource]
RenderOfError == [kind |-> "error", source |-> SourceDeclared]

Event(type, nodeId, additive) == [type |-> type, nodeId |-> nodeId, additive |-> additive]

NoProbe == [op |-> "none"]

CurrentCls ==
    [node |-> nodeCls, edge |-> edgeCls, cluster |-> clusterCls, edgeStyle |-> edgeStyle]

\* App.initialize: Utils.loadGraphFromUrl, Graph.initialize (parse, start the
\* first render), default controls, populateNodeSelect.
Init ==
    \E dotSource \in Sources :
        /\ currentDotSource = dotSource
        /\ nodes = ParseDotSource(dotSource).nodes
        /\ edges = ParseDotSource(dotSource).edges
        /\ currentSelection = <<>>
        /\ appNodes = ParseDotSource(dotSource).nodes
        /\ appEdges = ParseDotSource(dotSource).edges
        /\ selectValue = NoNode
        /\ viewMode = "downstream"
        /\ hopLimit = SliderMin
        /\ unlimitedHops = FALSE
        /\ svg = EmptySvg
        /\ nodeCls = NeutralCls(EmptySvg).node
        /\ edgeCls = NeutralCls(EmptySvg).edge
        /\ clusterCls = NeutralCls(EmptySvg).cluster
        /\ edgeStyle = NeutralCls(EmptySvg).edgeStyle
        /\ rendering = RenderOf(dotSource)
        /\ lastEvent = Event("init", NoNode, FALSE)
        /\ probe = NoProbe

\* ------------------------------------------------------------------ actions

SetCls(classes) ==
    \E cls \in {classes} :
        /\ nodeCls' = cls.node
        /\ edgeCls' = cls.edge
        /\ clusterCls' = cls.cluster
        /\ edgeStyle' = cls.edgeStyle

\* handleNodeClick, "Get max hops, checking for unlimited hops first".
ClickMaxHops(unlimited, slider) ==
    IF unlimited THEN UnlimitedHopsSentinel
    ELSE IF IsNaN(slider) \/ slider <= 0 THEN DefaultMaxHops ELSE slider

\* Seeded fault: every click is handled as a modifier-key click.
SelectionAfterClickAlwaysAdditive(selections, selection, additive) ==
    IF \E i \in DOMAIN selections : selections[i].nodeId = selection.nodeId
    THEN selections
    ELSE Append(selections, selection)

\* Seeded fault: a modifier-key click on a node already in the list re-stamps
\* its entry with the current mode and hop limit.
SelectionAfterClickRestamps(selections, selection, additive) ==
    IF additive
    THEN IF \E i \in DOMAIN selections : selections[i].nodeId = selection.nodeId
         THEN [i \in DOMAIN selections |->
                  IF selections[i].nodeId = selection.nodeId THEN selection
                  ELSE selections[i]]
         ELSE Append(selections, selection)
    ELSE <<selection>>

\* Seeded fault: a modifier-key click pushes its selection without looking
\* for the node in the list.
SelectionAfterClickPushesAlways(selections, selection, additive) ==
    IF additive THEN Append(selections, selection) ELSE <<selection>>

\* handleNodeClick, "Handle multi-selection with Ctrl/Cmd or Shift key".
SelectionAfterClick(selections, selection, additive) ==
    IF additive
    THEN IF \E i \in DOMAIN selections : selections[i].nodeId = selection.nodeId
         THEN selections
         ELSE Append(selections, selection)
    ELSE <<selection>>

\* A click on a rendered node: Graph.handleNodeClick, then its onNodeClick
\* callback App.handleNodeClick (dropdown value, App.updateView).
NodeClick(nodeId, additive) ==
    LET selection == [nodeId   |-> nodeId,
                      viewMode |-> viewMode,
                      maxHops  |-> ClickMaxHops(unlimitedHops, hopLimit)]
        selections == SelectionAfterClick(currentSelection, selection, additive)
        applied == applySelections(CurrentCls, selections)
        value == SetSelectValue(appNodes, nodeId)
    IN  /\ nodeId \in svg.nodes
        /\ currentSelection' = selections
        /\ selectValue' = value
        /\ SetCls(AppUpdateView(applied, value, viewMode, hopLimit, unlimitedHops))
        /\ lastEvent' = Event("click", nodeId, additive)
        /\ UNCHANGED <<currentDotSource, nodes, edges, appNodes, appEdges, viewMode,
                       hopLimit, unlimitedHops, svg, rendering, probe>>

\* The user picks an option of the dropdown: App.updateView.
NodeSelectChange(value) ==
    /\ value \in SelectOptions(appNodes) \cup {NoNode}
    /\ value # selectValue
    /\ selectValue' = value
    /\ SetCls(AppUpdateView(CurrentCls, value, viewMode, hopLimit, unlimitedHops))
    /\ lastEvent' = Event("select", value, FALSE)
    /\ UNCHANGED <<currentDotSource, nodes, edges, currentSelection, appNodes, appEdges,
                   viewMode, hopLimit, unlimitedHops, svg, rendering, probe>>

\* The user checks another view-mode radio: App.updateView.
ViewModeChange(mode) ==
    /\ mode # viewMode
    /\ viewMode' = mode
    /\ SetCls(AppUpdateView(CurrentCls, selectValue, mode, hopLimit, unlimitedHops))
    /\ lastEvent' = Event("mode", NoNode, FALSE)
    /\ UNCHANGED <<currentDotSource, nodes, edges, currentSelection, appNodes, appEdges,
                   selectValue, hopLimit, unlimitedHops, svg, rendering, probe>>

\* "Update each selection with the new max hops"
WithMaxHops(selections, maxHops) ==
    [i \in DOMAIN selections |-> [selections[i] EXCEPT !.maxHops = maxHops]]

\* The two listeners of a hop-limit change, in registration order: Graph's
\* (re-stamp and re-apply the selections, if any), then App's (App.updateView).
HopSettingChanged(slider, unlimited, maxHops) ==
    LET selections == IF Len(currentSelection) > 0
                      THEN WithMaxHops(currentSelection, maxHops)
                      ELSE currentSelection
        applied == IF Len(currentSelection) > 0
                   THEN applySelections(CurrentCls, selections)
                   ELSE CurrentCls
    IN  /\ currentSelection' = selections
        /\ SetCls(AppUpdateView(applied, selectValue, viewMode, slider, unlimited))

\* "input" on the hop-limit slider (disabled while unlimited hops is checked).
HopLimitInput(value) ==
    /\ ~unlimitedHops
    /\ value \in SliderMin..MaxSlider
    /\ value # hopLimit
    /\ hopLimit' = value
    /\ HopSettingChanged(value, unlimitedHops, value)
    /\ lastEvent' = Event("hop", NoNode, FALSE)
    /\ UNCHANGED <<currentDotSource, nodes, edges, appNodes, appEdges, selectValue,
                   viewMode, unlimitedHops, svg, rendering, probe>>

\* "change" on the unlimited-hops checkbox.
UnlimitedHopsChange ==
    LET checked == ~unlimitedHops
    IN  /\ unlimitedHops' = checked
        /\ HopSettingChanged(hopLimit, checked,
                             IF checked THEN UnlimitedHopsSentinel ELSE hopLimit)
        /\ lastEvent' = Event("unlimited", NoNode, FALSE)
        /\ UNCHANGED <<currentDotSource, nodes, edges, appNodes, appEdges, selectValue,
                       viewMode, hopLimit, svg, rendering, probe>>

\* Click on the reset control.
ResetClick ==
    /\ selectValue' = NoNode
    /\ viewMode' = "downstream"
    /\ SetCls(resetHighlights(CurrentCls))
    /\ currentSelection' = <<>>
    /\ lastEvent' = Event("reset", NoNode, FALSE)
    /\ UNCHANGED <<currentDotSource, nodes, edges, appNodes, appEdges, hopLimit,
                   unlimitedHops, svg, rendering, probe>>

\* keydown with key "Escape".
EscapeKey ==
    /\ SetCls(resetHighlights(CurrentCls))
    /\ currentSelection' = <<>>
    /\ lastEvent' = Event("escape", NoNode, FALSE)
    /\ UNCHANGED <<currentDotSource, nodes, edges, appNodes, appEdges, selectValue,
                   viewMode, hopLimit, unlimitedHops, svg, rendering, probe>>

\* Graph.updateGraph(newDotSource): the state it leaves and what it returns.
\* urlThrows: Utils.updateUrlWithGraph raises (history.pushState refused, codec
\* missing), which the catch block turns into the error graph and empty lists.
updateGraph(newDotSource, urlThrows) ==
    LET deterministic == makeGraphDeterministic(newDotSource)
        parsed == ParseDotSource(deterministic)
    IN  IF urlThrows
        THEN [currentDotSource |-> deterministic,
              nodes            |-> nodes,
              edges            |-> edges,
              currentSelection |-> currentSelection,
              rendering        |-> RenderOfError,
              returned         |-> [nodes |-> <<>>, edges |-> <<>>]]
        ELSE [currentDotSource |-> deterministic,
              nodes            |-> parsed.nodes,
              edges            |-> parsed.edges,
              currentSelection |-> <<>>,
              rendering        |-> RenderOf(deterministic),
              returned         |-> [nodes |-> parsed.nodes, edges |-> parsed.edges]]

\* App.updateDotSource(newDotSource), the editor's apply callback: updateGraph,
\* populateNodeSelect (the dropdown falls back to its first option), updateView.
UpdateDotSource(newDotSource, urlThrows) ==
    LET g == updateGraph(newDotSource, urlThrows)
    IN  /\ rendering.kind = "idle"
        /\ currentDotSource' = g.currentDotSource
        /\ nodes' = g.nodes
        /\ edges' = g.edges
        /\ currentSelection' = g.currentSelection
        /\ rendering' = g.rendering
        /\ appNodes' = g.returned.nodes
        /\ appEdges' = g.returned.edges
        /\ selectValue' = NoNode
        /\ SetCls(AppUpdateView(CurrentCls, NoNode, viewMode, hopLimit, unlimitedHops))
        /\ lastEvent' = Event(IF urlThrows THEN "sourceFailed" ELSE "source", NoNode, FALSE)
        /\ UNCHANGED <<viewMode, hopLimit, unlimitedHops, svg, probe>>

\* The renderer settles: the "end" event replaces the drawing (and attaches
\* the click handlers to its nodes).
RenderEnd ==
    LET drawn == IF rendering.kind = "error" THEN ErrorSvg
                 ELSE RenderDot(rendering.source)
    IN  /\ rendering.kind = "error" \/ (rendering.kind = "dot" /\ rendering.source.valid)
        /\ svg' = drawn
        /\ SetCls(NeutralCls(drawn))
        /\ rendering' = Idle
        /\ lastEvent' = Event("renderEnd", NoNode, FALSE)
        /\ UNCHANGED <<currentDotSource, nodes, edges, currentSelection, appNodes,
                       appEdges, selectValue, viewMode, hopLimit, unlimitedHops, probe>>

\* The renderer rejects the source: handleGraphvizError, showRenderingError
\* (which asks the renderer for the error graph).
RenderError ==
    /\ rendering.kind = "dot" /\ ~rendering.source.valid
    /\ rendering' = RenderOfError
    /\ lastEvent' = Event("renderError", NoNode, FALSE)
    /\ UNCHANGED <<currentDotSource, nodes, edges, currentSelection, appNodes, appEdges,
                   selectValue, viewMode, hopLimit, unlimitedHops, svg, nodeCls, edgeCls,
                   clusterCls, edgeStyle, probe>>

\* The nodes of the sources above (clicks on the box of the error graph are
\* not explored).
ClickableIds == {1, 2}

\* The view-mode radios the event machine switches between; the direct calls
\* of SpecView and SpecHops below draw from all five modes.
RadioModes == {"all", "single", "downstream"}

Next ==
    \/ \E nodeId \in ClickableIds, additive \in BOOLEAN : NodeClick(nodeId, additive)
    \/ \E value \in ClickableIds \cup {NoNode} : NodeSelectChange(value)
    \/ \E mode \in RadioModes : ViewModeChange(mode)
    \/ \E value \in SliderMin..MaxSlider : HopLimitInput(value)
    \/ UnlimitedHopsChange
    \/ ResetClick
    \/ EscapeKey
    \/ \E newDotSource \in Sources, urlThrows \in BOOLEAN :
           UpdateDotSource(newDotSource, urlThrows)
    \/ RenderEnd
    \/ RenderError

Spec == Init /\ [][Next]_vars

\* ------------------------------------------- properties of the event machine

HighlightedNodes(cls) == {n \in DOMAIN cls.node : "highlighted" \in cls.node[n]}
HighlightedEdges(cls) == {i \in DOMAIN cls.edge : "highlighted" \in cls.edge[i]}

SameClasses(a, b) == a.node = b.node /\ a.edge = b.edge /\ a.cluster = b.cluster

\* No element carries a highlight class.
NoHighlightClasses(cls) ==
    /\ \A n \in DOMAIN cls.node : cls.node[n] \cap {"highlighted", "faded", "selected"} = {}
    /\ \A i \in DOMAIN cls.edge :
          cls.edge[i] \cap {"highlighted", "faded", "selected-arrow"} = {}
    /\ \A i \in DOMAIN cls.cluster :
          cls.cluster[i] \cap {"highlighted-cluster", "faded-cluster"} = {}

\* No edge is drawn dimmed by an inline style.
NoEdgeDimmed(cls) == \A i \in DOMAIN cls.edgeStyle : cls.edgeStyle[i] # "0.3"

\* The maxHops a hop-limit setting stamps on the selections.
StampedMaxHops == IF unlimitedHops THEN UnlimitedHopsSentinel ELSE hopLimit

\* What a plain click on nodeId alone leaves, in the current mode and hop
\* setting (both handlers of the click).
PlainClickView(nodeId) ==
    LET selection == [nodeId |-> nodeId, viewMode |-> viewMode, maxHops |-> StampedMaxHops]
    IN  AppUpdateView(applySelections(CurrentCls, <<selection>>),
                      SetSelectValue(appNodes, nodeId), viewMode, hopLimit, unlimitedHops)

PlainThenAdditiveClick ==
    /\ lastEvent.type = "click" /\ ~lastEvent.additive
    /\ lastEvent'.type = "click" /\ lastEvent'.additive

\* C1: a plain click on A directly followed by a modifier-key click on B
\* leaves highlighted at least the nodes and edges that a plain click on A
\* alone and a plain click on B alone highlight.
C1_AdditiveClickKeepsBothViews ==
    [][PlainThenAdditiveClick =>
         \A a \in {PlainClickView(lastEvent.nodeId)},
            b \in {PlainClickView(lastEvent'.nodeId)} :
             /\ (HighlightedNodes(a) \cup HighlightedNodes(b))
                    \subseteq HighlightedNodes(CurrentCls)'
             /\ (HighlightedEdges(a) \cup HighlightedEdges(b))
                    \subseteq HighlightedEdges(CurrentCls)']_vars

\* C6: right after the Escape key or the reset control is handled, the
\* selection list is empty and no node, edge or cluster is highlighted, faded,
\* marked selected or marked as a direct connection.
C6_ClearLeavesEverythingNeutral ==
    lastEvent.type \in {"reset", "escape"} =>
      /\ currentSelection = <<>>
      /\ NoHighlightClasses(CurrentCls)
      /\ NoEdgeDimmed(CurrentCls)

\* C7: right after a click without modifier key the selection list is the
\* single selection {clicked node, current view mode, current hop limit}
\* (100 when unlimited hops is checked).
C7_PlainClickReplacesSelection ==
    (lastEvent.type = "click" /\ ~lastEvent.additive) =>
      currentSelection = << [nodeId   |-> lastEvent.nodeId,
                             viewMode |-> viewMode,
                             maxHops  |-> StampedMaxHops] >>

\* C7's case: a plain click in single mode with unlimited hops checked has
\* been handled.
C7_Witness ==
    /\ lastEvent = Event("click", 2, FALSE)
    /\ viewMode = "single" /\ unlimitedHops
    /\ currentSelection = << [nodeId |-> 2, viewMode |-> "single",
                              maxHops |-> UnlimitedHopsSentinel] >>

\* C8: a modifier-key click on a node already in the selection list leaves the
\* list as it was; on a node not in the list it appends one selection for that
\* node and leaves the earlier entries and their order untouched.
C8_AdditiveClickAppendsOrKeeps ==
    [][(lastEvent'.type = "click" /\ lastEvent'.additive) =>
         IF \E i \in DOMAIN currentSelection :
                currentSelection[i].nodeId = lastEvent'.nodeId
         THEN currentSelection' = currentSelection
         ELSE /\ Len(currentSelection') = Len(currentSelection) + 1
              /\ SubSeq(currentSelection', 1, Len(currentSelection)) = currentSelection
              /\ currentSelection'[Len(currentSelection')] =
                     [nodeId   |-> lastEvent'.nodeId,
                      viewMode |-> viewMode,
                      maxHops  |-> StampedMaxHops]]_vars

\* C8's case: a modifier-key click on a node of the list has been handled and
\* the entry of that node still has a mode other than the current one, behind
\* an entry that was appended to the list.
C8_Witness ==
    /\ lastEvent.type = "click" /\ lastEvent.additive
    /\ Len(currentSelection) = 2
    /\ currentSelection[1].nodeId = lastEvent.nodeId
    /\ currentSelection[1].viewMode # viewMode

\* C9: right after a hop-limit change handled with a non-empty selection
\* list, every selection carries the new maxHops and the classes left are the
\* composite of all selections of the list.
C9_HopChangeLeavesComposite ==
    (lastEvent.type \in {"hop", "unlimited"} /\ currentSelection # <<>>) =>
      /\ \A i \in DOMAIN currentSelection : currentSelection[i].maxHops = StampedMaxHops
      /\ SameClasses(CurrentCls, applySelections(CurrentCls, currentSelection))

\* C10: right after updateGraph was called with a new source, whether or not
\* it failed part-way, the selection list is empty.
C10_UpdateGraphClearsSelection ==
    lastEvent.type \in {"source", "sourceFailed"} => currentSelection = <<>>

\* ----------------------------------------------- direct calls: the graphs

\* A graph handed to the functions directly: n declared nodes 1..n, its edge
\* statements in order, the clusters drawn, and the nodes used as start nodes.
Graph(n, es, clusters, starts) == [n |-> n, edges |-> es, clusters |-> clusters, starts |-> starts]

GraphSource(g) ==
    LET es == g.edges
    IN  [stmts     |-> [i \in 1..g.n |-> NodeStmt(i, "plain")]
                       \o [i \in DOMAIN es |-> EdgeStmt(es[i][1], es[i][2], "none")],
         clusters  |-> g.clusters,
         hasLayout |-> TRUE,
         valid     |-> TRUE]

\* Every graph on NumNodes nodes with at most MaxEdges edges, self-loops included.
SmallGraphs ==
    {Graph(NumNodes, SetToSeq(es), <<>>, 1..NumNodes) :
        es \in {x \in SUBSET ((1..NumNodes) \X (1..NumNodes)) : Cardinality(x) <= MaxEdges}}

\* A->B, B->C, C->D, A->E, E->F with A..F = 1..6, and the same with A->C added.
ExampleEdges == <<(<<1, 2>>), <<2, 3>>, <<3, 4>>, <<1, 5>>, <<5, 6>> >>
ExampleGraph == Graph(6, ExampleEdges, <<>>, {1, 4})
ShortcutGraph == Graph(6, Append(ExampleEdges, <<1, 3>>), <<>>, {1, 3})

\* A chain 1 -> 2 -> ... longer than the unlimited-hops sentinel.
ChainLength == UnlimitedHopsSentinel + 2
ChainGraph == Graph(ChainLength, [i \in 1..(ChainLength - 1) |-> <<i, i + 1>>], <<>>, {1})

\* A cycle with a self-loop, a plain cluster and a legend cluster.
CycleGraph ==
    Graph(3, <<(<<1, 2>>), <<2, 3>>, <<3, 1>>, <<2, 2>> >>,
          <<Cluster(FALSE, {1}, {}), Cluster(TRUE, {3}, {})>>, {1, 2, 3})

\* The state once the source of graph g has been loaded and drawn.
Loaded(g) ==
    LET dotSource == GraphSource(g)
        parsed == ParseDotSource(dotSource)
        drawn == RenderDot(dotSource)
    IN  /\ currentDotSource = dotSource
        /\ nodes = parsed.nodes
        /\ edges = parsed.edges
        /\ appNodes = parsed.nodes
        /\ appEdges = parsed.edges
        /\ selectValue = NoNode
        /\ viewMode = "downstream"
        /\ hopLimit = SliderMin
        /\ unlimitedHops = FALSE
        /\ svg = drawn
        /\ nodeCls = NeutralCls(drawn).node
        /\ edgeCls = NeutralCls(drawn).edge
        /\ clusterCls = NeutralCls(drawn).cluster
        /\ edgeStyle = NeutralCls(drawn).edgeStyle
        /\ rendering = Idle
        /\ lastEvent = Event("init", NoNode, FALSE)

\* ------------------------------------- direct calls: traverseConnections

TraverseGraphs == SmallGraphs \cup {ExampleGraph, ShortcutGraph, ChainGraph}

\* The hop bounds updateView can pass on: positive, or one of the sentinels.
TraverseHops == (1..MaxProbeHops) \cup {UnlimitedHopsSentinel, MAX_SAFE_INTEGER}

NoConnections == [outgoing |-> <<>>, incoming |-> <<>>]

InitTrav ==
    \E g \in TraverseGraphs, direction \in {"downstream", "upstream"},
       maxHops \in TraverseHops :
      \E startNodeId \in g.starts :
        /\ Loaded(g)
        /\ currentSelection = <<>>
        /\ probe = [op |-> "traverseConnections", phase |-> "call",
                    direction |-> direction, startNodeId |-> startNodeId,
                    maxHops |-> maxHops, connections |-> NoConnections,
                    t |-> TraverseStart(startNodeId, {startNodeId}, {}, {})]

UnchangedByProbe ==
    UNCHANGED <<currentDotSource, nodes, edges, currentSelection, appNodes, appEdges,
                selectValue, viewMode, hopLimit, unlimitedHops, svg, nodeCls, edgeCls,
                clusterCls, edgeStyle, rendering, lastEvent>>

\* updateView calls traverseConnections: the connections of the graph, the
\* node set seeded with the start node, the edge sets empty.
TraverseCall ==
    /\ probe.op = "traverseConnections" /\ probe.phase = "call"
    /\ probe' = [probe EXCEPT !.phase = "loop", !.connections = getGraphConnections]
    /\ UnchangedByProbe

\* One iteration of the loop of the running traversal.
TraverseStep ==
    /\ probe.op = "traverseConnections" /\ probe.phase = "loop"
    /\ probe.t.queue # <<>>
    /\ probe' = [probe EXCEPT !.t = TraverseIteration(probe.direction, probe.startNodeId,
                                        probe.maxHops, probe.connections, probe.t)]
    /\ UnchangedByProbe

\* The queue is empty: traverseConnections returns.
TraverseReturn ==
    /\ probe.op = "traverseConnections" /\ probe.phase = "loop"
    /\ probe.t.queue = <<>>
    /\ probe' = [probe EXCEPT !.phase = "returned"]
    /\ UnchangedByProbe

NextTrav == TraverseCall \/ TraverseStep \/ TraverseReturn


SpecTrav == InitTrav /\ [][NextTrav]_vars

\* ------------------------------------------------ shortest hop distances

\* The arcs of the loaded graph: the edges the parser found and the edges
\* drawn; followed forwards downstream, backwards upstream.
GraphArcs ==
    {<<edges[i].source, edges[i].target>> : i \in DOMAIN edges} \cup Range(svg.edges)

DirectedArcs(direction) ==
    IF direction = "downstream" THEN GraphArcs
    ELSE {<<arc[2], arc[1]>> : arc \in GraphArcs}

\* D maps exactly the nodes within k hops of s to their shortest hop distance.
\* Stated without running a search:
\*   (1) s is at 0, every other node of D at a distance in 1..k;
\*   (2) every node of D other than s has a predecessor in D one hop nearer
\*       (so a path of its length exists) and none two or more hops nearer
\*       (so no shorter path through D exists);
\*   (3) D is closed: a successor of a node of D nearer than k is in D.
\* By (3) and (2), along a shortest path from s each node is in D at no more
\* than its position; by (2), following nearer predecessors back from a node
\* of D gives a path from s of exactly its recorded length.
IsShortestDistanceMap(D, arcs, s, k) ==
    /\ s \in DOMAIN D /\ D[s] = 0
    /\ \A n \in DOMAIN D \ {s} :
          /\ D[n] \in 1..k
          /\ \E m \in DOMAIN D : <<m, n>> \in arcs /\ D[m] = D[n] - 1
          /\ \A m \in DOMAIN D : <<m, n>> \in arcs => D[m] >= D[n] - 1
    /\ \A arc \in arcs :
          (arc[1] \in DOMAIN D /\ D[arc[1]] < k) => arc[2] \in DOMAIN D

\* No shortest path has as many hops as the graph has nodes.
Unbounded == Cardinality(svg.nodes)

TraverseReturned ==
    probe.op = "traverseConnections" /\ probe.phase = "returned"

\* C2: a downstream traversal run with a hop bound the program uses for
\* "unlimited hops" (100 in Graph.handleNodeClick and the unlimited-hops
\* listener, Number.MAX_SAFE_INTEGER in App.updateView) reaches exactly the
\* nodes with a directed path from the start node, each recorded at its
\* shortest hop distance.
C2_UnlimitedReachesAllDescendants ==
    (/\ TraverseReturned
     /\ probe.direction = "downstream"
     /\ probe.maxHops \in {UnlimitedHopsSentinel, MAX_SAFE_INTEGER})
    => /\ IsShortestDistanceMap(probe.t.visited, DirectedArcs("downstream"),
                                probe.startNodeId, Unbounded)
       /\ probe.t.nodesToHighlight = DOMAIN probe.t.visited

\* C3: for a hop bound k >= 1 and either direction, traverseConnections never
\* records a distance above k, and when it returns the nodes it added to the
\* highlighted set (seeded with the start node) are exactly the nodes at
\* shortest distance 1..k, each recorded at that shortest distance.
C3_TraversalIsBoundedShortestDistance ==
    probe.op = "traverseConnections" =>
      /\ \A n \in DOMAIN probe.t.visited : probe.t.visited[n] \in 0..probe.maxHops
      /\ TraverseReturned =>
            /\ IsShortestDistanceMap(probe.t.visited, DirectedArcs(probe.direction),
                                     probe.startNodeId, probe.maxHops)
            /\ probe.t.nodesToHighlight = DOMAIN probe.t.visited

\* C3's case: with A->B, B->C, C->D, A->E, E->F and the direct edge A->C, a
\* downstream run from A with three hops has returned; C, also reached through
\* B, is recorded at distance 1 and D at distance 2.
C3_Witness ==
    /\ TraverseReturned
    /\ currentDotSource = GraphSource(ShortcutGraph)
    /\ probe.direction = "downstream" /\ probe.startNodeId = 1 /\ probe.maxHops = 3
    /\ probe.t.visited = (1 :> 0) @@ (2 :> 1) @@ (3 :> 1) @@ (5 :> 1) @@ (4 :> 2) @@ (6 :> 2)
    /\ probe.t.nodesToHighlight = 1..6

\* --------------------------------------------- direct calls: updateView

ViewGraphs == SmallGraphs \cup {ExampleGraph, ShortcutGraph, CycleGraph}

\* The hop bounds handed to updateView: zero, which it takes for invalid, the
\* positive bounds, and the two sentinels.
ViewHops == (0..MaxProbeHops) \cup {UnlimitedHopsSentinel, MAX_SAFE_INTEGER}

\* updateView is called for the same node and mode with a lower and then,
\* the classes reset in between, with a higher hop bound.
InitHops ==
    \E g \in ViewGraphs, mode \in {"downstream", "upstream"},
       low \in ViewHops, high \in ViewHops :
      \E selectedNodeId \in g.starts :
        /\ low < high
        /\ Loaded(g)
        /\ currentSelection = <<>>
        /\ probe = [op |-> "updateView", phase |-> "low",
                    selectedNodeId |-> selectedNodeId, mode |-> mode,
                    low |-> low, high |-> high, lowNodes |-> {}, highNodes |-> {}]

UnchangedByView ==
    UNCHANGED <<currentDotSource, nodes, edges, currentSelection, appNodes, appEdges,
                selectValue, viewMode, hopLimit, unlimitedHops, svg, rendering, lastEvent>>

ViewLow ==
    \E cls \in {updateView(CurrentCls, probe.selectedNodeId, probe.mode, probe.low)} :
        /\ probe.op = "updateView" /\ probe.phase = "low"
        /\ SetCls(cls)
        /\ probe' = [probe EXCEPT !.phase = "reset", !.lowNodes = HighlightedNodes(cls)]
        /\ UnchangedByView

ViewReset ==
    /\ probe.op = "updateView" /\ probe.phase = "reset"
    /\ SetCls(resetHighlights(CurrentCls))
    /\ probe' = [probe EXCEPT !.phase = "high"]
    /\ UnchangedByView

ViewHigh ==
    \E cls \in {updateView(CurrentCls, probe.selectedNodeId, probe.mode, probe.high)} :
        /\ probe.op = "updateView" /\ probe.phase = "high"
        /\ SetCls(cls)
        /\ probe' = [probe EXCEPT !.phase = "done", !.highNodes = HighlightedNodes(cls)]
        /\ UnchangedByView

NextHops == ViewLow \/ ViewReset \/ ViewHigh

SpecHops == InitHops /\ [][NextHops]_vars

BothViewsDone == probe.op = "updateView" /\ probe.phase = "done"

\* C4: for downstream and upstream mode and hop bounds 0 <= k < k', the nodes
\* updateView highlights with maxHops = k are among those it highlights with
\* maxHops = k'.
C4_HopMonotoneFromZero ==
    BothViewsDone => probe.lowNodes \subseteq probe.highNodes

\* C4, amended: the same for hop bounds 1 <= k < k' (updateView replaces a
\* bound of zero by its default of five hops).
C4_HopMonotoneFromOne ==
    (BothViewsDone /\ probe.low >= 1) => probe.lowNodes \subseteq probe.highNodes

\* C4's case: with A->B, B->C, C->D, A->E, E->F, downstream from A, one hop
\* highlights A, B, E and two hops highlight C and F as well.
C4_Witness ==
    /\ BothViewsDone
    /\ currentDotSource = GraphSource(ExampleGraph)
    /\ probe.selectedNodeId = 1 /\ probe.mode = "downstream"
    /\ probe.low = 1 /\ probe.high = 2
    /\ probe.lowNodes = {1, 2, 5}
    /\ probe.highNodes = {1, 2, 3, 5, 6}

\* ------------------------------- direct calls: updateView in every mode

\* An identifier no element of the drawn graph carries.
UnknownNodeId == 7

TraversalModes == {"single", "downstream", "upstream", "bidirectional"}

\* updateView is called once on the freshly drawn graph, for a node of the
\* graph or for the unknown identifier, in each mode but "all".
InitModes ==
    \E g \in ViewGraphs, mode \in TraversalModes, maxHops \in ViewHops :
      \E selectedNodeId \in g.starts \cup {UnknownNodeId} :
        /\ Loaded(g)
        /\ currentSelection = <<>>
        /\ probe = [op |-> "updateView", phase |-> "call",
                    selectedNodeId |-> selectedNodeId, mode |-> mode,
                    maxHops |-> maxHops]

\* The visited map of the traversal updateView runs in the direction given
\* (the hop distance of every node that run reaches).
RunHops(direction, selectedNodeId, maxHops) ==
    traverseConnections(direction, selectedNodeId, NormalizeMaxHops(maxHops),
                        getGraphConnections, {selectedNodeId}, {}, {}).visited

\* The call; the connections it builds, the three sets it computes and the
\* hop distances of its traversals are kept for inspection.
ViewCall ==
    /\ probe.op = "updateView" /\ probe.phase = "call"
    /\ SetCls(updateView(CurrentCls, probe.selectedNodeId, probe.mode, probe.maxHops))
    /\ \E v \in {ViewSets(probe.selectedNodeId, probe.mode, NormalizeMaxHops(probe.maxHops))} :
          probe' = [op |-> "updateView", phase |-> "done",
                    selectedNodeId |-> probe.selectedNodeId, mode |-> probe.mode,
                    maxHops |-> probe.maxHops,
                    connections |-> getGraphConnections,
                    nodesToHighlight |-> v.nodesToHighlight,
                    edgesToHighlight |-> v.edgesToHighlight,
                    directEdges |-> v.directEdges,
                    downHops |-> IF probe.mode \in {"downstream", "bidirectional"}
                                 THEN RunHops("downstream", probe.selectedNodeId, probe.maxHops)
                                 ELSE <<>>,
                    upHops |-> IF probe.mode \in {"upstream", "bidirectional"}
                               THEN RunHops("upstream", probe.selectedNodeId, probe.maxHops)
                               ELSE <<>>]
    /\ UnchangedByView

NextModes == ViewCall

SpecModes == InitModes /\ [][NextModes]_vars

ViewDone(mode) ==
    probe.op = "updateView" /\ probe.phase = "done" /\ probe.mode = mode

\* The edge elements that carry the class given.
EdgesClassed(name) == {i \in DOMAIN edgeCls : name \in edgeCls[i]}

\* The nodes one edge away from s, in either direction.
Neighbours(s) ==
    {arc[2] : arc \in {x \in GraphArcs : x[1] = s}}
    \cup {arc[1] : arc \in {x \in GraphArcs : x[2] = s}}

C13_EdgesFollowHopOrder ==
    /\ ViewDone("downstream") =>
          \A i \in EdgesClassed("highlighted") :
             LET u == svg.edges[i][1]
                 v == svg.edges[i][2]
             IN  {u, v} \subseteq HighlightedNodes(CurrentCls)
                 => \/ probe.downHops[u] < probe.downHops[v]
                    \/ u = probe.selectedNodeId
    /\ ViewDone("upstream") =>
          \A i \in EdgesClassed("highlighted") :
             LET u == svg.edges[i][1]
                 v == svg.edges[i][2]
             IN  {u, v} \subseteq HighlightedNodes(CurrentCls)
                 => \/ probe.upHops[v] < probe.upHops[u]
                    \/ v = probe.selectedNodeId

\* Both nodes are reached by the run with the hop map given, at distances
\* that differ by exactly one.
AdjacentHops(hops, u, v) ==
    /\ {u, v} \subseteq DOMAIN hops
    /\ hops[u] - hops[v] \in {-1, 1}

\* C14: after updateView in bidirectional mode an edge between two different
\* highlighted nodes is highlighted exactly when one end is reached by the
\* upstream run and the other by the downstream run, or it touches the start
\* node, or both ends are in the same half at adjacent hop distances.
C14_BidirectionalEdgeRule ==
    ViewDone("bidirectional") =>
      LET s    == probe.selectedNodeId
          up   == DOMAIN probe.upHops \ {s}
          down == DOMAIN probe.downHops \ {s}
      IN  \A i \in DOMAIN svg.edges :
             LET u == svg.edges[i][1]
                 v == svg.edges[i][2]
             IN  (u # v /\ {u, v} \subseteq HighlightedNodes(CurrentCls))
                 => ("highlighted" \in edgeCls[i]
                     <=> \/ u \in up /\ v \in down
                         \/ v \in up /\ u \in down
                         \/ s \in {u, v}
                         \/ AdjacentHops(probe.upHops, u, v)
                         \/ AdjacentHops(probe.downHops, u, v))

\* The selected identifier has no entry in the connections updateView built.
SelectedUnknown ==
    /\ probe.op = "updateView" /\ probe.phase = "done"
    /\ probe.selectedNodeId \notin DOMAIN probe.connections.outgoing
    /\ probe.selectedNodeId \notin DOMAIN probe.connections.incoming

\* C17: updateView for an identifier without entry in the connections, in any
\* mode but "all", completes with nothing reached (the node set holds the
\* identifier alone, the edge sets are empty); every node element other than
\* one carrying the identifier and every edge element is faded, none is
\* highlighted.
C17_UnknownNodeFadesEverything ==
    SelectedUnknown
    => /\ probe.nodesToHighlight = {probe.selectedNodeId}
       /\ probe.edgesToHighlight = {} /\ probe.directEdges = {}
       /\ \A n \in DOMAIN nodeCls \ {probe.selectedNodeId} : nodeCls[n] = {"faded"}
       /\ \A i \in DOMAIN edgeCls : edgeCls[i] = {"faded"}

\* C17's case: on A->B, B->C, C->D, A->E, E->F the unknown identifier has been
\* selected in bidirectional mode; all six nodes and five edges are faded.
C17_Witness ==
    /\ SelectedUnknown
    /\ probe.selectedNodeId = UnknownNodeId
    /\ probe.mode = "bidirectional"
    /\ currentDotSource = GraphSource(ExampleGraph)
    /\ \A n \in 1..6 : nodeCls[n] = {"faded"}
    /\ \A i \in 1..5 : edgeCls[i] = {"faded"}

\* ------------------------------------- hop-limit control with any value

\* The texts the hop-limit control is made to hold: not a number, empty, zero,
\* negative, valid, and a fraction.
HopInputTexts == {"abc", "", "-1", "0", "1", "2", "2.5"}

\* The example graph is drawn and the controls are at their defaults.
InitInput ==
    /\ Loaded(ExampleGraph)
    /\ currentSelection = <<>>
    /\ probe = [op |-> "hop input"]

\* "input" on the hop-limit control with the text given as its value: both
\* listeners parse it with parseInt.
HopLimitInputText(text) ==
    /\ ~unlimitedHops
    /\ hopLimit' = parseInt(text)
    /\ HopSettingChanged(parseInt(text), unlimitedHops, parseInt(text))
    /\ lastEvent' = Event("hop", NoNode, FALSE)
    /\ UNCHANGED <<currentDotSource, nodes, edges, appNodes, appEdges, selectValue,
                   viewMode, unlimitedHops, svg, rendering, probe>>

NextInput ==
    \/ \E text \in HopInputTexts : HopLimitInputText(text)
    \/ \E nodeId \in ClickableIds, additive \in BOOLEAN : NodeClick(nodeId, additive)
    \/ UnlimitedHopsChange

SpecInput == InitInput /\ [][NextInput]_vars

\* The value is not a positive number.
InvalidHops(x) == IsNaN(x) \/ x <= 0

\* The selections, with every invalid hop limit replaced by the default.
WithDefaultForInvalid(selections) ==
    [i \in DOMAIN selections |->
        IF InvalidHops(selections[i].maxHops)
        THEN [selections[i] EXCEPT !.maxHops = DefaultMaxHops]
        ELSE selections[i]]

\* C18: the hop bound updateView hands to its traversals is a positive number
\* for every stored selection and for the value of the control; a click while
\* the control holds an invalid value stores the default 5; and after every
\* event with an invalid value in the control the classes are those the
\* default of 5 hops gives.
C18_InvalidHopInputBecomesDefault ==
    /\ \A i \in DOMAIN currentSelection :
          /\ ~IsNaN(NormalizeMaxHops(currentSelection[i].maxHops))
          /\ NormalizeMaxHops(currentSelection[i].maxHops) >= 1
    /\ ~IsNaN(NormalizeMaxHops(hopLimit)) /\ NormalizeMaxHops(hopLimit) >= 1
    /\ (lastEvent.type = "click" /\ ~unlimitedHops /\ InvalidHops(hopLimit))
       => \A i \in DOMAIN currentSelection :
             currentSelection[i].nodeId = lastEvent.nodeId
             => (~lastEvent.additive => currentSelection[i].maxHops = DefaultMaxHops)
    /\ (lastEvent.type \in {"click", "hop", "unlimited"}
        /\ ~unlimitedHops /\ InvalidHops(hopLimit))
       => SameClasses(CurrentCls,
                      AppUpdateView(applySelections(CurrentCls,
                                        WithDefaultForInvalid(currentSelection)),
                                    selectValue, viewMode, DefaultMaxHops, FALSE))

\* C18's case: the control has been given the text "abc" and node A of
\* A->B, B->C, C->D, A->E, E->F was then clicked: the selection holds 5 hops
\* and all of A's downstream nodes, D included, are highlighted.
C18_Witness ==
    /\ probe.op = "hop input"
    /\ lastEvent = Event("click", 1, FALSE)
    /\ IsNaN(hopLimit) /\ ~unlimitedHops
    /\ currentSelection = <<[nodeId |-> 1, viewMode |-> "downstream", maxHops |-> DefaultMaxHops]>>
    /\ HighlightedNodes(CurrentCls) = 1..6

\* ------------------------------------------------- the earlier Graph module
\* part_002 holds two Graph modules.  The earlier one (lines 1-465) has no
\* selection list: its updateView finds the nodes with the recursive helpers
\* of Parser and decides every edge by the rules below.

\* Infinity, as in "hops.get(id) || Infinity".
Infinity == 2147483647

\* hopsMap.get(id) || fallback: a missing entry and an entry of 0 both give
\* the fallback.
HopsOr(hopsMap, id, fallback) ==
    IF id \in DOMAIN hopsMap /\ hopsMap[id] # 0 THEN hopsMap[id] ELSE fallback

\* Seeded fault: the dependencies looked up against the direction (the edges
\* into serviceId for downstream, the edges out of it for upstream).
DirectDependenciesAgainstDirection(direction, serviceId) ==
    LET follows(edge) == IF direction = "downstream" THEN edge.target = serviceId
                         ELSE edge.source = serviceId
        matches == SelectSeq(edges, follows)
    IN  [i \in DOMAIN matches |->
            IF direction = "downstream" THEN matches[i].source ELSE matches[i].target]

\* edges.filter(edge => edge.source === serviceId) (downstream) or
\* edge.target === serviceId (upstream), as the node at the other end.
DirectDependencies(direction, serviceId) ==
    LET follows(edge) == IF direction = "downstream" THEN edge.source = serviceId
                         ELSE edge.target = serviceId
        matches == SelectSeq(edges, follows)
    IN  [i \in DOMAIN matches |->
            IF direction = "downstream" THEN matches[i].target ELSE matches[i].source]

\* Parser.findDownstreamNodes / Parser.findUpstreamNodes: r holds resultSet
\* and hopsMap, both modified in place.
RECURSIVE FindNodes(_, _, _, _)
RECURSIVE ForEachDependency(_, _, _, _, _)
ForEachDependency(direction, dependencies, currentHops, r, maxHops) ==
    IF dependencies = <<>> THEN r
    ELSE LET id    == Head(dependencies)
             hops  == currentHops + 1
             found == [resultSet |-> r.resultSet \cup {id},
                       hopsMap   |-> (id :> hops) @@ r.hopsMap]
             r1    == IF id \notin DOMAIN r.hopsMap \/ r.hopsMap[id] > hops
                      THEN IF hops < maxHops
                           THEN FindNodes(direction, id, found, maxHops)
                           ELSE found
                      ELSE r
         IN  CHOOSE result \in
                 {ForEachDependency(direction, Tail(dependencies), currentHops, next, maxHops) :
                    next \in {r1}} : TRUE

FindNodes(direction, serviceId, r, maxHops) ==
    LET currentHops == HopsOr(r.hopsMap, serviceId, 0)
    IN  IF currentHops >= maxHops THEN r
        ELSE ForEachDependency(direction, DirectDependencies(direction, serviceId),
                               currentHops, r, maxHops)

findDownstreamNodes(serviceId, r, maxHops) == FindNodes("downstream", serviceId, r, maxHops)

findUpstreamNodes(serviceId, r, maxHops) == FindNodes("upstream", serviceId, r, maxHops)

\* The node sets and hop maps the earlier updateView computes first.
EarlierViewSets(selectedNodeId, mode, maxHops) ==
    LET connectedEdges == SelectSeq(edges, LAMBDA edge : edge.source = selectedNodeId
                                                       \/ edge.target = selectedNodeId)
        none  == [resultSet |-> {}, hopsMap |-> <<>>]
        start == [resultSet |-> {}, hopsMap |-> (selectedNodeId :> 0)]
        down  == IF mode \in {"downstream", "bidirectional"}
                 THEN findDownstreamNodes(selectedNodeId, start, maxHops) ELSE none
        up    == IF mode \in {"upstream", "bidirectional"}
                 THEN findUpstreamNodes(selectedNodeId, start, maxHops) ELSE none
    IN  [connectedNodeIds  |-> {selectedNodeId}
                               \cup {connectedEdges[i].source : i \in DOMAIN connectedEdges}
                               \cup {connectedEdges[i].target : i \in DOMAIN connectedEdges},
         downstreamNodeIds |-> down.resultSet,
         downstreamHops    |-> down.hopsMap,
         upstreamNodeIds   |-> up.resultSet,
         upstreamHops      |-> up.hopsMap]

\* shouldHighlight of a node.
EarlierNodeHighlight(w, nodeId, selectedNodeId, mode) ==
    \/ nodeId = selectedNodeId
    \/ mode = "single" /\ nodeId \in w.connectedNodeIds
    \/ mode = "downstream" /\ nodeId \in w.downstreamNodeIds
    \/ mode = "upstream" /\ nodeId \in w.upstreamNodeIds
    \/ mode = "bidirectional" /\ nodeId \in w.downstreamNodeIds \cup w.upstreamNodeIds

\* shouldHighlight and isDirectConnection of the edge sourceId->targetId.
EarlierEdgeHighlight(w, sourceId, targetId, selectedNodeId, mode) ==
    LET reached == IF mode = "downstream" THEN w.downstreamNodeIds
                   ELSE IF mode = "upstream" THEN w.upstreamNodeIds
                   ELSE IF mode = "bidirectional"
                        THEN w.downstreamNodeIds \cup w.upstreamNodeIds
                   ELSE {}
        sourceHighlighted == sourceId = selectedNodeId \/ sourceId \in reached
        targetHighlighted == targetId = selectedNodeId \/ targetId \in reached
        sourceUpHops   == HopsOr(w.upstreamHops, sourceId, Infinity)
        targetUpHops   == HopsOr(w.upstreamHops, targetId, Infinity)
        sourceDownHops == HopsOr(w.downstreamHops, sourceId, Infinity)
        targetDownHops == HopsOr(w.downstreamHops, targetId, Infinity)
        touches == sourceId = selectedNodeId \/ targetId = selectedNodeId
    IN  IF mode = "single"
        THEN [shouldHighlight |-> touches, isDirectConnection |-> touches]
        ELSE IF mode = "downstream"
        THEN [shouldHighlight |-> /\ sourceHighlighted /\ targetHighlighted
                                  /\ \/ sourceDownHops < targetDownHops
                                     \/ sourceId = selectedNodeId,
              isDirectConnection |-> sourceId = selectedNodeId]
        ELSE IF mode = "upstream"
        THEN [shouldHighlight |-> /\ sourceHighlighted /\ targetHighlighted
                                  /\ \/ targetUpHops < sourceUpHops
                                     \/ targetId = selectedNodeId,
              isDirectConnection |-> targetId = selectedNodeId]
        ELSE [shouldHighlight |->
                  /\ sourceHighlighted /\ targetHighlighted
                  /\ IF sourceUpHops < Infinity /\ targetDownHops < Infinity THEN TRUE
                     ELSE IF targetUpHops < Infinity /\ sourceDownHops < Infinity THEN TRUE
                     ELSE IF touches THEN TRUE
                     ELSE IF sourceUpHops < Infinity /\ targetUpHops < Infinity
                          THEN sourceUpHops - targetUpHops \in {-1, 1}
                     ELSE IF sourceDownHops < Infinity /\ targetDownHops < Infinity
                          THEN sourceDownHops - targetDownHops \in {-1, 1}
                     ELSE TRUE,
              isDirectConnection |-> touches]

\* updateView(selectedNodeId, viewMode, maxHops) of the earlier module, on the
\* classes given.
EarlierUpdateView(classes, selectedNodeId, mode, maxHops) ==
    CHOOSE result \in {
    IF selectedNodeId = NoNode \/ mode = "all"
    THEN [cls EXCEPT
            !.node = [n \in DOMAIN cls.node |-> cls.node[n] \ {"highlighted", "faded"}],
            !.edge = [i \in DOMAIN cls.edge |->
                         cls.edge[i] \ {"highlighted", "faded", "selected-arrow"}]]
    ELSE [cls EXCEPT
            !.node = [n \in DOMAIN cls.node |->
                        LET shouldHighlight == EarlierNodeHighlight(w, n, selectedNodeId, mode)
                        IN  Classed(Classed(cls.node[n], "highlighted", shouldHighlight),
                                    "faded", ~shouldHighlight)],
            !.edge = [i \in DOMAIN cls.edge |->
                        LET e == EarlierEdgeHighlight(w, svg.edges[i][1], svg.edges[i][2],
                                                      selectedNodeId, mode)
                        IN  Classed(Classed(Classed(cls.edge[i],
                                "highlighted", e.shouldHighlight),
                                "faded", ~e.shouldHighlight),
                                "selected-arrow", e.isDirectConnection /\ e.shouldHighlight)]]
    : cls \in {classes}, w \in {EarlierViewSets(selectedNodeId, mode, maxHops)}} : TRUE

\* The hop bounds App.updateView passes: the slider value or, with unlimited
\* hops checked, Number.MAX_SAFE_INTEGER.
AppHops == (1..MaxProbeHops) \cup {MAX_SAFE_INTEGER}

\* The earlier updateView is called once on the freshly drawn graph.
InitEarlier ==
    \E g \in ViewGraphs, mode \in TraversalModes, maxHops \in AppHops :
      \E selectedNodeId \in g.starts :
        /\ Loaded(g)
        /\ currentSelection = <<>>
        /\ probe = [op |-> "earlier updateView", phase |-> "call",
                    selectedNodeId |-> selectedNodeId, mode |-> mode,
                    maxHops |-> maxHops]

EarlierViewCall ==
    /\ probe.op = "earlier updateView" /\ probe.phase = "call"
    /\ SetCls(EarlierUpdateView(CurrentCls, probe.selectedNodeId, probe.mode, probe.maxHops))
    /\ \E w \in {EarlierViewSets(probe.selectedNodeId, probe.mode, probe.maxHops)} :
          probe' = [op |-> "earlier updateView", phase |-> "done",
                    selectedNodeId |-> probe.selectedNodeId, mode |-> probe.mode,
                    maxHops |-> probe.maxHops,
                    downHops |-> w.downstreamHops, upHops |-> w.upstreamHops]
    /\ UnchangedByView

NextEarlier == EarlierViewCall

SpecEarlier == InitEarlier /\ [][NextEarlier]_vars

\* C16: a self-loop edge never carries the highlighted or the selected-arrow
\* class, whatever node and mode were selected (in either module).
C16_SelfLoopNeverHighlighted ==
    \A i \in DOMAIN svg.edges :
       svg.edges[i][1] = svg.edges[i][2]
       => edgeCls[i] \cap {"highlighted", "selected-arrow"} = {}

\* The same for the connections and the sets of the later module: no node is
\* its own neighbour, and no self-loop is in the edge sets.
SelfLoopNeverInConnections ==
    (probe.op = "updateView" /\ probe.phase = "done")
    => /\ \A n \in DOMAIN probe.connections.outgoing :
             ~Contains(probe.connections.outgoing[n], n)
       /\ \A n \in DOMAIN probe.connections.incoming :
             ~Contains(probe.connections.incoming[n], n)
       /\ \A e \in probe.edgesToHighlight \cup probe.directEdges : e[1] # e[2]

\* ------------------------------------------ direct calls: applySelections

SelectionGraphs == {ExampleGraph, CycleGraph}

SelectionHops == {1, 2}

\* The selection lists over the start nodes of g, up to MaxSelections long.
SelectionLists(g) ==
    UNION {[1..n -> [nodeId : g.starts, viewMode : ViewModes, maxHops : SelectionHops]] :
              n \in 0..MaxSelections}

InitView ==
    \E g \in SelectionGraphs :
      \E selections \in SelectionLists(g) :
        /\ Loaded(g)
        /\ currentSelection = selections
        /\ probe = [op |-> "applySelections", phase |-> "call"]

RunApplySelections ==
    /\ probe.op = "applySelections" /\ probe.phase = "call"
    /\ SetCls(applySelections(CurrentCls, currentSelection))
    /\ probe' = [probe EXCEPT !.phase = "applied"]
    /\ UnchangedByView

\* applySelections is called again, on the same list and graph; the classes
\* the first call left are kept for comparison.
RerunApplySelections ==
    /\ probe.op = "applySelections" /\ probe.phase = "applied"
    /\ SetCls(applySelections(CurrentCls, currentSelection))
    /\ probe' = [op |-> "applySelections", phase |-> "reapplied", once |-> CurrentCls]
    /\ UnchangedByView

NextView == RunApplySelections \/ RerunApplySelections

SpecView == InitView /\ [][NextView]_vars

\* C5: when applySelections has run on a list that is empty or holds a
\* selection of mode "all", no node and no edge is highlighted or faded.
C5_AllOrEmptyLeavesNeutral ==
    (/\ probe.op = "applySelections" /\ probe.phase = "applied"
     /\ \/ currentSelection = <<>>
        \/ \E i \in DOMAIN currentSelection : currentSelection[i].viewMode = "all")
    => /\ \A n \in DOMAIN nodeCls : nodeCls[n] \cap {"highlighted", "faded"} = {}
       /\ \A i \in DOMAIN edgeCls : edgeCls[i] \cap {"highlighted", "faded"} = {}

\* C11: applySelections run a second time on the same selection list and graph
\* leaves on every node and every edge exactly the classes the first run left.
C11_ApplySelectionsIdempotent ==
    (probe.op = "applySelections" /\ probe.phase = "reapplied")
    => /\ nodeCls = probe.once.node
       /\ edgeCls = probe.once.edge

\* Two selections have been applied twice, and the view has highlighted and
\* faded nodes and a direct edge.
C11_Witness ==
    /\ probe.op = "applySelections" /\ probe.phase = "reapplied"
    /\ Len(currentSelection) = 2
    /\ currentSelection[1].nodeId # currentSelection[2].nodeId
    /\ \E n \in DOMAIN nodeCls : "highlighted" \in nodeCls[n]
    /\ \E n \in DOMAIN nodeCls : "faded" \in nodeCls[n]
    /\ \E i \in DOMAIN edgeCls : {"highlighted", "selected-arrow"} \subseteq edgeCls[i]

\* What applySelections leaves when the list holds the selection given alone.
Alone(selection) == applySelections(CurrentCls, <<selection>>)

C19_RejectedSourceKeepsLastGoodModel ==
    (lastEvent.type = "renderError" /\ svg = RenderDot(SourceDeclared))
    => /\ nodes = ParseDotSource(SourceDeclared).nodes
       /\ edges = ParseDotSource(SourceDeclared).edges

\* ------------------------------------------------------------ Editor module

\* A text is the sequence of its characters.  String.prototype.trim and \s
\* strip white space; \w is a letter, a digit or the underscore.
Whitespace == {" ", "\n", "\t"}

Digits == {"0", "1", "2", "3", "4", "5", "6", "7", "8", "9"}

LowerCase ==
    {"a", "b", "c", "d", "e", "f", "g", "h", "i", "j", "k", "l", "m",
     "n", "o", "p", "q", "r", "s", "t", "u", "v", "w", "x", "y", "z"}

UpperCase ==
    {"A", "B", "C", "D", "E", "F", "G", "H", "I", "J", "K", "L", "M",
     "N", "O", "P", "Q", "R", "S", "T", "U", "V", "W", "X", "Y", "Z"}

IsWordChar(c) == c \in LowerCase \cup UpperCase \cup Digits \cup {"_"}

\* The /i flag, for the letters of the keywords the patterns spell out.
Fold(c) ==
    CASE c = "D" -> "d" [] c = "I" -> "i" [] c = "G" -> "g" [] c = "R" -> "r"
      [] c = "A" -> "a" [] c = "P" -> "p" [] c = "H" -> "h" [] OTHER -> c

\* dotSource[i] || '' (positions count from 1 here).
TextAt(text, i) == IF i \in DOMAIN text THEN text[i] ELSE ""

\* The word stands in the text from position i on.
MatchesAt(text, i, word, ignoreCase) ==
    \A k \in DOMAIN word :
        (IF ignoreCase THEN Fold(TextAt(text, i + k - 1)) ELSE TextAt(text, i + k - 1))
            = word[k]

\* \b between positions i - 1 and i.
WordBoundary(text, i) == IsWordChar(TextAt(text, i - 1)) # IsWordChar(TextAt(text, i))

\* All characters of text at the positions lo..hi belong to the set.
AllIn(text, lo, hi, set) == \A k \in lo..hi : TextAt(text, k) \in set

\* !dotSource.trim()
IsBlank(text) == AllIn(text, 1, Len(text), Whitespace)

\* \b(di)?graph at position i, where i is the position of the "g".
GraphKeywordAt(text, i, ignoreCase) ==
    /\ MatchesAt(text, i, <<"g", "r", "a", "p", "h">>, ignoreCase)
    /\ \/ WordBoundary(text, i)
       \/ MatchesAt(text, i - 2, <<"d", "i">>, ignoreCase) /\ WordBoundary(text, i - 2)

\* /\b(di)?graph\s+[^{]*{/i
HasGraphDefinition(text) ==
    \E i \in DOMAIN text :
        /\ GraphKeywordAt(text, i, TRUE)
        /\ TextAt(text, i + 5) \in Whitespace
        /\ \E j \in DOMAIN text : j > i + 5 /\ text[j] = "{"

\* The loop of validateDOTSyntax from position i on: the brace count and the
\* string and comment flags after the last character, or tooMany as soon as
\* a closing brace has no opening one.
ScanState(braceCount, inString, inComment, inBlockComment, tooMany) ==
    [braceCount |-> braceCount, inString |-> inString, inComment |-> inComment,
     inBlockComment |-> inBlockComment, tooMany |-> tooMany]

RECURSIVE ScanBraces(_, _, _)
ScanBraces(text, i, st) ==
    IF i > Len(text) THEN st
    ELSE
    LET char == text[i]
        nextChar == TextAt(text, i + 1)
    IN  IF char = "\"" /\ ~st.inComment /\ ~st.inBlockComment
        THEN IF i > 1 /\ text[i - 1] = "\\"
             THEN ScanBraces(text, i + 1, st)
             ELSE ScanBraces(text, i + 1, [st EXCEPT !.inString = ~st.inString])
        ELSE IF ~st.inString /\ char = "/" /\ nextChar = "/" /\ ~st.inBlockComment
        THEN ScanBraces(text, i + 2, [st EXCEPT !.inComment = TRUE])
        ELSE IF ~st.inString /\ char = "/" /\ nextChar = "*" /\ ~st.inComment
        THEN ScanBraces(text, i + 2, [st EXCEPT !.inBlockComment = TRUE])
        ELSE IF ~st.inString /\ char = "*" /\ nextChar = "/" /\ st.inBlockComment
        THEN ScanBraces(text, i + 2, [st EXCEPT !.inBlockComment = FALSE])
        ELSE IF ~st.inString /\ char = "\n" /\ st.inComment
        THEN ScanBraces(text, i + 1, [st EXCEPT !.inComment = FALSE])
        ELSE IF ~st.inString /\ ~st.inComment /\ ~st.inBlockComment /\ char = "{"
        THEN ScanBraces(text, i + 1, [st EXCEPT !.braceCount = st.braceCount + 1])
        ELSE IF ~st.inString /\ ~st.inComment /\ ~st.inBlockComment /\ char = "}"
        THEN IF st.braceCount - 1 < 0
             THEN [st EXCEPT !.braceCount = st.braceCount - 1, !.tooMany = TRUE]
             ELSE ScanBraces(text, i + 1, [st EXCEPT !.braceCount = st.braceCount - 1])
        ELSE ScanBraces(text, i + 1, st)

\* /\bdigraph\b/i
IsDigraph(text) ==
    \E i \in DOMAIN text :
        /\ MatchesAt(text, i, <<"d", "i", "g", "r", "a", "p", "h">>, TRUE)
        /\ WordBoundary(text, i)
        /\ WordBoundary(text, i + 7)

\* /\[.+\]/g: a bracket block with something in it on one line.
HasBracketBlock(text) ==
    \E i, j \in DOMAIN text :
        /\ text[i] = "[" /\ text[j] = "]" /\ j > i + 1
        /\ \A k \in (i + 1)..(j - 1) : text[k] # "\n"

\* dotSource.includes(edgeOp)
Includes(text, word) == \E i \in DOMAIN text : MatchesAt(text, i, word, FALSE)

\* ["\w]+\s*->\s*["\w]+ (or -- in a graph): an operator with a quote or word
\* character before and after it, white space apart.
HasEdgeSyntax(text, edgeOp) ==
    \E a, b, c \in DOMAIN text :
        /\ a < b /\ b + 1 < c
        /\ (text[a] = "\"" \/ IsWordChar(text[a]))
        /\ AllIn(text, a + 1, b - 1, Whitespace)
        /\ MatchesAt(text, b, edgeOp, FALSE)
        /\ AllIn(text, b + 2, c - 1, Whitespace)
        /\ (text[c] = "\"" \/ IsWordChar(text[c]))

Verdict(valid, error) == [valid |-> valid, error |-> error]

\* The checks validateDOTSyntax makes itself when window.parser is not set.
BasicValidation(dotSource) ==
    LET st == ScanBraces(dotSource, 1, ScanState(0, FALSE, FALSE, FALSE, FALSE))
        edgeOp == IF IsDigraph(dotSource) THEN <<"-", ">">> ELSE <<"-", "-">>
    IN  IF IsBlank(dotSource) THEN Verdict(FALSE, "Empty DOT source")
        ELSE IF ~HasGraphDefinition(dotSource)
        THEN Verdict(FALSE, "Missing graph definition")
        ELSE IF st.tooMany
        THEN Verdict(FALSE, "Unbalanced braces: too many closing braces")
        ELSE IF st.inString THEN Verdict(FALSE, "Unclosed string literal")
        ELSE IF st.inBlockComment THEN Verdict(FALSE, "Unclosed block comment")
        ELSE IF st.braceCount > 0
        THEN Verdict(FALSE, "Unbalanced braces: missing closing braces")
        ELSE IF /\ HasBracketBlock(dotSource)
                /\ ~HasEdgeSyntax(dotSource, edgeOp)
                /\ Includes(dotSource, edgeOp)
        THEN Verdict(FALSE, "Invalid edge syntax")
        ELSE Verdict(TRUE, "")

\* window.parser as index.html leaves it before the Editor script runs: no
\* script of the page defines it, so it is the stand-in whose parse accepts
\* every text.
WindowParser == "stand-in"

\* parser.parse(dotSource) of the stand-in: it returns for every text.
ParserThrows(dotSource) == FALSE

validateWithDotParser(dotSource) ==
    IF IsBlank(dotSource) THEN Verdict(FALSE, "Empty DOT source")
    ELSE IF WindowParser = "undefined" THEN Verdict(TRUE, "")
    ELSE IF ParserThrows(dotSource) THEN Verdict(FALSE, "Syntax error")
    ELSE Verdict(TRUE, "")

validateDOTSyntax(dotSource) ==
    IF WindowParser = "undefined" THEN BasicValidation(dotSource)
    ELSE validateWithDotParser(dotSource)

\* The texts typed into the editor.

\* digraph G {"1"[z=1];"1"->"2"}
TextAccepted ==
    <<"d", "i", "g", "r", "a", "p", "h", " ", "G", " ", "{", "\"", "1", "\"",
      "[", "z", "=", "1", "]", ";", "\"", "1", "\"", "-", ">", "\"", "2",
      "\"", "}">>

\* a blank and a line break
TextEmpty ==
    <<" ", "\n">>

\* {"2"->"1"}
TextNoHeader ==
    <<"{", "\"", "2", "\"", "-", ">", "\"", "1", "\"", "}">>

\* digraph G {"2"->"1"
TextUnbalanced ==
    <<"d", "i", "g", "r", "a", "p", "h", " ", "G", " ", "{", "\"", "2", "\"",
      "-", ">", "\"", "1", "\"">>

\* digraph G {"2"->"1}
TextUnclosedString ==
    <<"d", "i", "g", "r", "a", "p", "h", " ", "G", " ", "{", "\"", "2", "\"",
      "-", ">", "\"", "1", "}">>

\* digraph G {"2"->"1"}/*
TextUnclosedComment ==
    <<"d", "i", "g", "r", "a", "p", "h", " ", "G", " ", "{", "\"", "2", "\"",
      "-", ">", "\"", "1", "\"", "}", "/", "*">>

\* The graphs sanitizeDotSource puts in the place of a text it gives up on.

\* digraph G { node [label="Error: Invalid DOT source"]; }
ErrorSourceText ==
    <<"d", "i", "g", "r", "a", "p", "h", " ", "G", " ", "{", " ", "n", "o",
      "d", "e", " ", "[", "l", "a", "b", "e", "l", "=", "\"", "E", "r", "r",
      "o", "r", ":", " ", "I", "n", "v", "a", "l", "i", "d", " ", "D", "O",
      "T", " ", "s", "o", "u", "r", "c", "e", "\"", "]", ";", " ", "}">>

\* digraph G { node [label="Error: Invalid DOT format"]; }
ErrorFormatText ==
    <<"d", "i", "g", "r", "a", "p", "h", " ", "G", " ", "{", " ", "n", "o",
      "d", "e", " ", "[", "l", "a", "b", "e", "l", "=", "\"", "E", "r", "r",
      "o", "r", ":", " ", "I", "n", "v", "a", "l", "i", "d", " ", "D", "O",
      "T", " ", "f", "o", "r", "m", "a", "t", "\"", "]", ";", " ", "}">>

\* /\b(di)?graph\s+[A-Za-z0-9_]*\s*\{/: the keyword at i, white space, an
\* optional name, optional white space, the brace at j.
NamedGraphAt(text, i, j) ==
    /\ GraphKeywordAt(text, i, FALSE)
    /\ j > i + 5 /\ TextAt(text, j) = "{"
    /\ \E a \in (i + 5)..(j - 1) : \E c \in a..(j - 1) :
          /\ AllIn(text, i + 5, a, Whitespace)
          /\ AllIn(text, a + 1, c, LowerCase \cup UpperCase \cup Digits \cup {"_"})
          /\ AllIn(text, c + 1, j - 1, Whitespace)

\* /\b(di)?graph\s*\{/: the keyword at i, optional white space, the brace at j.
BareGraphAt(text, i, j) ==
    /\ GraphKeywordAt(text, i, FALSE)
    /\ j >= i + 5 /\ TextAt(text, j) = "{"
    /\ AllIn(text, i + 5, j - 1, Whitespace)

\* dotSource.replace(/\b(di)?graph\s*\{/, '$1graph G {'): the first match.
NameTheGraph(text) ==
    LET i == CHOOSE i \in DOMAIN text :
                 /\ \E j \in DOMAIN text : BareGraphAt(text, i, j)
                 /\ \A k \in 1..(i - 1) : \A j \in DOMAIN text : ~BareGraphAt(text, k, j)
        j == CHOOSE j \in DOMAIN text : BareGraphAt(text, i, j)
    IN  SubSeq(text, 1, i + 4) \o <<" ", "G", " ", "{">> \o SubSeq(text, j + 1, Len(text))

CountOf(text, c) == Cardinality({i \in DOMAIN text : text[i] = c})

\* dotSource.trim().endsWith('}')
EndsWithBrace(text) ==
    \E i \in DOMAIN text : text[i] = "}" /\ AllIn(text, i + 1, Len(text), Whitespace)

\* "Ensure proper closing brace"
CloseTheGraph(text) ==
    IF ~EndsWithBrace(text) /\ CountOf(text, "{") > CountOf(text, "}")
    THEN text \o <<"\n", "}">>
    ELSE text

\* Editor.sanitizeDotSource (the copy of Graph.sanitizeDotSource).
sanitizeDotSource(dotSource) ==
    IF dotSource = <<>> THEN ErrorSourceText
    ELSE IF \E i, j \in DOMAIN dotSource : NamedGraphAt(dotSource, i, j)
    THEN CloseTheGraph(dotSource)
    ELSE IF \E i, j \in DOMAIN dotSource : BareGraphAt(dotSource, i, j)
    THEN CloseTheGraph(NameTheGraph(dotSource))
    ELSE IF ~Includes(dotSource, <<"{">>) THEN ErrorFormatText
    ELSE CloseTheGraph(dotSource)

\* The texts the layout engine draws without an error, among those handed to
\* it here.
LayoutAccepts(text) ==
    text \in {TextAccepted, TextUnbalanced \o <<"\n", "}">>,
              ErrorSourceText, ErrorFormatText}

\* An editor content: its text, and the statements Parser's patterns find in
\* it together with the layout engine's verdict on what renderGraph hands it.
Document(text, stmts) ==
    [text |-> text,
     dot  |-> [stmts     |-> stmts,
               clusters  |-> <<>>,
               hasLayout |-> FALSE,
               valid     |-> LayoutAccepts(sanitizeDotSource(text))]]

DocAccepted == Document(TextAccepted, <<NodeStmt(1, "plain"), EdgeStmt(1, 2, "none")>>)
DocEmpty == Document(TextEmpty, <<>>)
DocNoHeader == Document(TextNoHeader, <<EdgeStmt(2, 1, "none")>>)
DocUnbalanced == Document(TextUnbalanced, <<EdgeStmt(2, 1, "none")>>)
DocUnclosedString == Document(TextUnclosedString, <<>>)
DocUnclosedComment == Document(TextUnclosedComment, <<EdgeStmt(2, 1, "none")>>)

\* What is typed into the editor; the state refers to a content by its name.
Documents ==
    [accepted        |-> DocAccepted,
     empty           |-> DocEmpty,
     noHeader        |-> DocNoHeader,
     unbalanced      |-> DocUnbalanced,
     unclosedString  |-> DocUnclosedString,
     unclosedComment |-> DocUnclosedComment]

Contents == DOMAIN Documents

TextOf(content) == Documents[content].text

DotOf(content) == Documents[content].dot

\* Most Graphviz preview renders of the validation timer awaited at a time.
MaxPreviews == 1

\* validationTimeout: the content the pending validation timer was set for.
NoTimer == [pending |-> FALSE, content |-> "empty"]
Timer(content) == [pending |-> TRUE, content |-> content]

\* One run of the preview validation: the content captured by its closures,
\* its validationCompleted flag, whether the temporary renderer has yet to
\* call back, and whether its 2000 ms fallback timer has yet to fire; stale
\* (history) records that the content was changed after the run started.
Preview(content, validationCompleted, awaited, fallback) ==
    [content |-> content, validationCompleted |-> validationCompleted,
     rendering |-> awaited, fallback |-> fallback, stale |-> FALSE]

\* The argument of the last call of onApplyChanges from the editor.
NotApplied == [called |-> FALSE, content |-> "empty"]
Applied(content) == [called |-> TRUE, content |-> content]

\* The editor, kept in probe: the content of the Monaco model, the auto-apply
\* switch, the validation timer, whether #validation-status carries the class
\* "validating", lastGraphvizError (set or null), the preview validations
\* under way, whether the 300 ms timer of the apply button is pending, and the
\* last call of the apply callback.
EditorState(value, autoApplyChanges) ==
    [op                |-> "editor",
     value             |-> value,
     autoApplyChanges  |-> autoApplyChanges,
     validationTimeout |-> NoTimer,
     validating        |-> FALSE,
     lastGraphvizError |-> FALSE,
     previews          |-> {},
     successTimer      |-> FALSE,
     applied           |-> NotApplied]

\* App.initialize with the accepted text: Graph.initialize, Editor.initialize
\* (the editor shows the text; autoApplyChanges comes from localStorage).
InitEditor ==
    \E autoApplyChanges \in BOOLEAN :
        /\ currentDotSource = DotOf("accepted")
        /\ nodes = ParseDotSource(DotOf("accepted")).nodes
        /\ edges = ParseDotSource(DotOf("accepted")).edges
        /\ currentSelection = <<>>
        /\ appNodes = ParseDotSource(DotOf("accepted")).nodes
        /\ appEdges = ParseDotSource(DotOf("accepted")).edges
        /\ selectValue = NoNode
        /\ viewMode = "downstream"
        /\ hopLimit = SliderMin
        /\ unlimitedHops = FALSE
        /\ svg = EmptySvg
        /\ nodeCls = NeutralCls(EmptySvg).node
        /\ edgeCls = NeutralCls(EmptySvg).edge
        /\ clusterCls = NeutralCls(EmptySvg).cluster
        /\ edgeStyle = NeutralCls(EmptySvg).edgeStyle
        /\ rendering = RenderOf(DotOf("accepted"))
        /\ lastEvent = Event("init", NoNode, FALSE)
        /\ probe = EditorState("accepted", autoApplyChanges)

\* The handler leaves the Graph and App modules alone.
GraphUntouched ==
    UNCHANGED <<currentDotSource, nodes, edges, currentSelection, appNodes, appEdges,
                selectValue, viewMode, hopLimit, unlimitedHops, svg, nodeCls, edgeCls,
                clusterCls, edgeStyle, rendering, lastEvent>>

\* onApplyChanges(content), which is App.updateDotSource: updateGraph (the
\* address bar takes the new source), populateNodeSelect, updateView.
onApplyChanges(content) ==
    LET g == updateGraph(DotOf(content), FALSE)
    IN  /\ rendering.kind = "idle"
        /\ currentDotSource' = g.currentDotSource
        /\ nodes' = g.nodes
        /\ edges' = g.edges
        /\ currentSelection' = g.currentSelection
        /\ rendering' = g.rendering
        /\ appNodes' = g.returned.nodes
        /\ appEdges' = g.returned.edges
        /\ selectValue' = NoNode
        /\ SetCls(AppUpdateView(CurrentCls, NoNode, viewMode, hopLimit, unlimitedHops))
        /\ lastEvent' = Event("source", NoNode, FALSE)
        /\ UNCHANGED <<viewMode, hopLimit, unlimitedHops, svg>>

\* onDidChangeModelContent, up to setting the validation timer.
ContentChange(content) ==
    /\ content # probe.value
    /\ probe' = [probe EXCEPT !.value = content,
                              !.validating = TRUE,
                              !.lastGraphvizError = FALSE,
                              !.validationTimeout = Timer(content),
                              !.previews = {[p EXCEPT !.stale = TRUE] : p \in @}]
    /\ GraphUntouched

\* The validation timer fires (300 ms): validateDOTSyntax, and for a text it
\* reports valid a preview render of sanitizeDotSource(currentContent) with
\* its fallback timer.
ValidationTimer ==
    \E currentContent \in {probe.validationTimeout.content} :
    \E validationResult \in {validateDOTSyntax(TextOf(currentContent))} :
        /\ probe.validationTimeout.pending
        /\ (currentContent = probe.value /\ validationResult.valid)
           => Cardinality(probe.previews
                          \cup {Preview(currentContent, FALSE, TRUE, TRUE)}) <= MaxPreviews
        /\ probe' =
              IF currentContent # probe.value
              THEN [probe EXCEPT !.validationTimeout = NoTimer]
              ELSE IF validationResult.valid
              THEN [probe EXCEPT !.validationTimeout = NoTimer,
                                 !.validating = TRUE,
                                 !.previews = @ \cup {Preview(currentContent, FALSE, TRUE, TRUE)}]
              ELSE [probe EXCEPT !.validationTimeout = NoTimer,
                                 !.validating = FALSE]
        /\ GraphUntouched

\* The previews with p replaced by q; a preview whose renderer has called
\* back and whose fallback timer has fired is gone.
ReplacePreview(previews, p, q) ==
    (previews \ {p}) \cup (IF q.rendering \/ q.fallback THEN {q} ELSE {})

\* .onerror of the temporary renderer.
PreviewError(p) ==
    /\ p \in probe.previews /\ p.rendering
    /\ ~LayoutAccepts(sanitizeDotSource(TextOf(p.content)))
    /\ probe' = [probe EXCEPT
                    !.validating = FALSE,
                    !.previews = ReplacePreview(@, p, [p EXCEPT !.validationCompleted = TRUE,
                                                                !.rendering = FALSE])]
    /\ GraphUntouched

\* .on("end") of the temporary renderer: auto-apply when the switch is on
\* and the editor still holds the validated content.
PreviewEnd(p) ==
    /\ p \in probe.previews /\ p.rendering
    /\ LayoutAccepts(sanitizeDotSource(TextOf(p.content)))
    /\ IF p.validationCompleted
       THEN /\ probe' = [probe EXCEPT
                            !.previews = ReplacePreview(@, p, [p EXCEPT !.rendering = FALSE])]
            /\ GraphUntouched
       ELSE IF probe.autoApplyChanges /\ p.content = probe.value
       THEN /\ probe' = [probe EXCEPT
                            !.validating = FALSE,
                            !.applied = Applied(p.content),
                            !.previews = ReplacePreview(@, p,
                                             [p EXCEPT !.validationCompleted = TRUE,
                                                       !.rendering = FALSE])]
            /\ onApplyChanges(p.content)
       ELSE /\ probe' = [probe EXCEPT
                            !.validating = FALSE,
                            !.previews = ReplacePreview(@, p,
                                             [p EXCEPT !.validationCompleted = TRUE,
                                                       !.rendering = FALSE])]
            /\ GraphUntouched

\* The 2000 ms fallback timer of a preview.
PreviewTimeout(p) ==
    /\ p \in probe.previews /\ p.fallback
    /\ IF p.content # probe.value \/ ~probe.validating \/ p.validationCompleted
       THEN /\ probe' = [probe EXCEPT
                            !.previews = ReplacePreview(@, p, [p EXCEPT !.fallback = FALSE])]
            /\ GraphUntouched
       ELSE IF probe.lastGraphvizError
       THEN /\ probe' = [probe EXCEPT
                            !.validating = FALSE,
                            !.lastGraphvizError = FALSE,
                            !.previews = ReplacePreview(@, p,
                                             [p EXCEPT !.validationCompleted = TRUE,
                                                       !.fallback = FALSE])]
            /\ GraphUntouched
       ELSE IF probe.autoApplyChanges
       THEN /\ probe' = [probe EXCEPT
                            !.validating = FALSE,
                            !.applied = Applied(p.content),
                            !.previews = ReplacePreview(@, p,
                                             [p EXCEPT !.validationCompleted = TRUE,
                                                       !.fallback = FALSE])]
            /\ onApplyChanges(p.content)
       ELSE /\ probe' = [probe EXCEPT
                            !.validating = FALSE,
                            !.previews = ReplacePreview(@, p,
                                             [p EXCEPT !.validationCompleted = TRUE,
                                                       !.fallback = FALSE])]
            /\ GraphUntouched

\* "click" on #apply-changes.
ApplyChangesClick ==
    \E newDotSource \in {probe.value} :
    \E validationResult \in {validateDOTSyntax(TextOf(newDotSource))} :
        IF validationResult.valid
        THEN /\ probe' = [probe EXCEPT !.lastGraphvizError = FALSE,
                                       !.validating = TRUE,
                                       !.successTimer = TRUE,
                                       !.applied = Applied(newDotSource)]
             /\ onApplyChanges(newDotSource)
        ELSE /\ probe' = [probe EXCEPT !.lastGraphvizError = FALSE,
                                       !.validating = FALSE]
             /\ GraphUntouched

\* The 300 ms timer of the apply button: "Changes applied successfully".
ApplySuccessTimer ==
    /\ probe.successTimer
    /\ probe' = [probe EXCEPT !.successTimer = FALSE, !.validating = FALSE]
    /\ GraphUntouched

\* "change" on #auto-apply-toggle.
AutoApplyToggle ==
    /\ probe' = [probe EXCEPT !.autoApplyChanges = ~probe.autoApplyChanges]
    /\ GraphUntouched

\* The renderer of the graph rejects the applied source: handleGraphvizError
\* logs "Graphviz rendering error", which the editor's console.error wrapper
\* keeps as lastGraphvizError (taking "validating" off the status), then
\* showRenderingError.
EditorRenderError ==
    /\ rendering.kind = "dot" /\ ~rendering.source.valid
    /\ rendering' = RenderOfError
    /\ lastEvent' = Event("renderError", NoNode, FALSE)
    /\ probe' = [probe EXCEPT !.lastGraphvizError = TRUE, !.validating = FALSE]
    /\ UNCHANGED <<currentDotSource, nodes, edges, currentSelection, appNodes, appEdges,
                   selectValue, viewMode, hopLimit, unlimitedHops, svg, nodeCls, edgeCls,
                   clusterCls, edgeStyle>>

NextEditor ==
    \/ \E content \in Contents : ContentChange(content)
    \/ ValidationTimer
    \/ \E p \in probe.previews : PreviewError(p)
    \/ \E p \in probe.previews : PreviewEnd(p)
    \/ \E p \in probe.previews : PreviewTimeout(p)
    \/ ApplyChangesClick
    \/ ApplySuccessTimer
    \/ AutoApplyToggle
    \/ RenderEnd
    \/ EditorRenderError

SpecEditor == InitEditor /\ [][NextEditor]_vars

\* The defects the basic checks of validateDOTSyntax name: an empty source, a
\* missing graph header, unbalanced braces, an unclosed string, an unclosed
\* block comment.
DefectiveContents ==
    {"empty", "noHeader", "unbalanced", "unclosedString", "unclosedComment"}

Null == [kind |-> "null", text |-> <<>>]
Thrown == [kind |-> "throw", text |-> <<>>]
Text(text) == [kind |-> "text", text |-> text]

\* Only null is falsy.
TruthyUnlessNull(value) == value.kind = "text"

\* if (value): null and the empty string are falsy.
Truthy(value) == value.kind = "text" /\ value.text # <<>>

\* text.indexOf(c), counting from 1; 0 when c does not occur.
IndexOf(text, c) ==
    IF \E i \in DOMAIN text : text[i] = c
    THEN CHOOSE i \in DOMAIN text : text[i] = c /\ \A k \in 1..(i - 1) : text[k] # c
    ELSE 0

\* text.split(c)
RECURSIVE Split(_, _)
Split(text, c) ==
    IF IndexOf(text, c) = 0 THEN <<text>>
    ELSE <<SubSeq(text, 1, IndexOf(text, c) - 1)>>
         \o Split(SubSeq(text, IndexOf(text, c) + 1, Len(text)), c)

\* The characters the escapes of the URLs used here stand for.
Unescape(h1, h2) ==
    CASE <<h1, h2>> = <<"2", "B">> -> "+"
      [] <<h1, h2>> = <<"2", "6">> -> "&"
      [] <<h1, h2>> = <<"2", "5">> -> "%"
      [] OTHER -> ""

\* Percent-decoding from position i on.  A "%" without two hexadecimal digits
\* after it stays as it is when lenient (URLSearchParams) and makes the whole
\* decoding fail otherwise (decodeURIComponent raises URIError).
RECURSIVE PercentDecode(_, _, _)
PercentDecode(text, i, lenient) ==
    IF i > Len(text) THEN Text(<<>>)
    ELSE IF text[i] = "%" /\ Unescape(TextAt(text, i + 1), TextAt(text, i + 2)) # ""
    THEN LET rest == PercentDecode(text, i + 3, lenient)
         IN  IF rest.kind = "throw" THEN Thrown
             ELSE Text(<<Unescape(text[i + 1], text[i + 2])>> \o rest.text)
    ELSE IF text[i] = "%" /\ ~lenient THEN Thrown
    ELSE LET rest == PercentDecode(text, i + 1, lenient)
         IN  IF rest.kind = "throw" THEN Thrown
             ELSE Text(<<text[i]>> \o rest.text)

decodeURIComponent(text) == PercentDecode(text, 1, FALSE)

\* application/x-www-form-urlencoded decoding of a name or a value: "+" is a
\* blank, then the escapes.
PlusToBlank(text) == [i \in DOMAIN text |-> IF text[i] = "+" THEN " " ELSE text[i]]

FormDecode(text) == PercentDecode(PlusToBlank(text), 1, TRUE).text

\* new URLSearchParams(search).get(name): the value of the first pair with
\* that name, or null.
SearchPairs(search) ==
    LET query == IF TextAt(search, 1) = "?" THEN SubSeq(search, 2, Len(search)) ELSE search
        parts == SelectSeq(Split(query, "&"), LAMBDA part : part # <<>>)
    IN  [i \in DOMAIN parts |->
            LET eq == IndexOf(parts[i], "=")
            IN  IF eq = 0 THEN [name |-> FormDecode(parts[i]), value |-> <<>>]
                ELSE [name  |-> FormDecode(SubSeq(parts[i], 1, eq - 1)),
                      value |-> FormDecode(SubSeq(parts[i], eq + 1, Len(parts[i])))]]

SearchParamGet(search, name) ==
    LET pairs == SearchPairs(search)
    IN  IF \E i \in DOMAIN pairs : pairs[i].name = name
        THEN Text(pairs[CHOOSE i \in DOMAIN pairs :
                           /\ pairs[i].name = name
                           /\ \A k \in 1..(i - 1) : pairs[k].name # name].value)
        ELSE Null

\* window.location.search once history.pushState has taken the URL: what
\* follows the path up to a "#".
SearchOf(query) ==
    IF IndexOf(query, "#") = 0 THEN query ELSE SubSeq(query, 1, IndexOf(query, "#") - 1)

\* The two codecs.  "mock" is the one of the tests: compress puts
\* "compressed_" in front, decompress takes its first occurrence out.  "lz"
\* stands for the library the page loads: a letter of the source becomes a
\* letter of the library's URL alphabet and an end mark follows; its
\* decompressor gives null for the empty string, turns blanks back into "+",
\* and gives null, or raises, for what compress cannot have written.
MockPrefix == <<"c", "o", "m", "p", "r", "e", "s", "s", "e", "d", "_">>

EndMark == "Q"

KeyOf(c) ==
    CASE c = "a" -> "+" [] c = "+" -> "A" [] c = "&" -> "-" [] c = "#" -> "$"
      [] c = "%" -> "B" [] OTHER -> "C"

SourceChars == {"a", "+", "&", "#", "%"}

Codecs == {"mock", "lz null", "lz throw"}

compressToEncodedURIComponent(codec, input) ==
    IF codec = "mock" THEN MockPrefix \o input
    ELSE [i \in DOMAIN input |-> KeyOf(input[i])] \o <<EndMark>>

\* The position of the first occurrence of word in text, 0 if there is none.
FirstOccurrence(text, word) ==
    IF Includes(text, word)
    THEN CHOOSE i \in DOMAIN text :
             /\ MatchesAt(text, i, word, FALSE)
             /\ \A k \in 1..(i - 1) : ~MatchesAt(text, k, word, FALSE)
    ELSE 0

decompressFromEncodedURIComponent(codec, input) ==
    IF codec = "mock"
    THEN LET at == FirstOccurrence(input, MockPrefix)
         IN  IF at = 0 THEN Text(input)
             ELSE Text(SubSeq(input, 1, at - 1)
                       \o SubSeq(input, at + Len(MockPrefix), Len(input)))
    ELSE LET fixed == [i \in DOMAIN input |-> IF input[i] = " " THEN "+" ELSE input[i]]
             body == SubSeq(fixed, 1, Len(fixed) - 1)
         IN  IF input = <<>> THEN Null
             ELSE IF /\ fixed[Len(fixed)] = EndMark
                     /\ \A i \in DOMAIN body : \E c \in SourceChars : KeyOf(c) = body[i]
             THEN Text([i \in DOMAIN body |-> CHOOSE c \in SourceChars : KeyOf(c) = body[i]])
             ELSE IF codec = "lz throw" THEN Thrown ELSE Null

\* loadGraphFromUrl(defaultDotSource) with window.location.search as given.
loadGraphFromUrl(codec, search, defaultDotSource) ==
    LET encodedDot == SearchParamGet(search, <<"g", "r", "a", "p", "h">>)
        compressedDot == SearchParamGet(search, <<"c">>)
        decompressed == decompressFromEncodedURIComponent(codec, compressedDot.text)
        decoded == decodeURIComponent(encodedDot.text)
    IN  IF Truthy(compressedDot)
        THEN IF decompressed.kind = "throw" THEN defaultDotSource
             ELSE IF ~Truthy(decompressed) THEN defaultDotSource
             ELSE decompressed.text
        ELSE IF Truthy(encodedDot)
        THEN IF decoded.kind = "throw" THEN defaultDotSource ELSE decoded.text
        ELSE defaultDotSource

\* The compressed source under the name of the legacy parameter.
QueryForLegacyName(codec, graphData) ==
    <<"?", "g", "r", "a", "p", "h", "=">> \o compressToEncodedURIComponent(codec, graphData)

\* '?c=' + compressedGraph, the part updateUrlWithGraph and shareGraph put
\* after the origin and the path.
QueryFor(codec, graphData) ==
    <<"?", "c", "=">> \o compressToEncodedURIComponent(codec, graphData)

\* Longest source handed to updateUrlWithGraph.
MaxSourceLen == 2

\* The sources: every text of the characters above up to that length.
UrlSources == UNION {[1..n -> SourceChars] : n \in 0..MaxSourceLen}

\* The defaults the caller supplies.
DefaultSources == {<<"d">>, <<"a">>}

GraphName == <<"g", "r", "a", "p", "h">>

\* The query strings the page is opened with: none, an unrelated parameter,
\* a compressed source, one the decompressor cannot read, a legacy source, a
\* legacy source with an escaped "%", one whose "%" is not an escape once the
\* query string is parsed, both parameters, and an empty 'c' before a legacy
\* source.
OpenedSearches(codec) ==
    {<<>>,
     <<"?", "x", "=", "a">>,
     QueryFor(codec, <<"a">>),
     <<"?", "c", "=", "a", "a">>,
     <<"?">> \o GraphName \o <<"=", "a">>,
     <<"?">> \o GraphName \o <<"=", "a", "%", "2", "5", "2", "6">>,
     <<"?">> \o GraphName \o <<"=", "a", "%", "2", "5">>,
     QueryFor(codec, <<"a">>) \o <<"&">> \o GraphName \o <<"=", "+">>,
     <<"?", "c", "=", "&">> \o GraphName \o <<"=", "a">>}

\* The page and its URL, kept in probe: the codec in use, location.search,
\* the source of the last updateUrlWithGraph (null while the URL is the one
\* the page was opened with), and the default handed to and the source
\* returned by the last loadGraphFromUrl since (null before it).
UrlState(codec, search, graphData, defaultDotSource, returned) ==
    [op |-> "url", codec |-> codec, search |-> search, graphData |-> graphData,
     defaultDotSource |-> defaultDotSource, returned |-> returned]

InitUrl ==
    /\ Loaded(ExampleGraph)
    /\ currentSelection = <<>>
    /\ \E codec \in Codecs : \E search \in OpenedSearches(codec) :
           probe = UrlState(codec, search, Null, <<>>, Null)

\* updateUrlWithGraph(graphData): history.pushState with '?c=' and the
\* compressed source.
UpdateUrlWithGraph(graphData) ==
    /\ probe' = UrlState(probe.codec, SearchOf(QueryFor(probe.codec, graphData)),
                         Text(graphData), <<>>, Null)
    /\ GraphUntouched

\* loadGraphFromUrl(defaultDotSource) on the URL as it is.
LoadGraphFromUrl(defaultDotSource) ==
    /\ probe' = [probe EXCEPT
                    !.defaultDotSource = defaultDotSource,
                    !.returned = Text(loadGraphFromUrl(probe.codec, probe.search,
                                                       defaultDotSource))]
    /\ GraphUntouched

NextUrl ==
    \/ \E graphData \in UrlSources : UpdateUrlWithGraph(graphData)
    \/ \E defaultDotSource \in DefaultSources : LoadGraphFromUrl(defaultDotSource)

SpecUrl == InitUrl /\ [][NextUrl]_vars

\* loadGraphFromUrl has returned for the URL updateUrlWithGraph wrote.
LoadedAfterUpdate == probe.graphData.kind = "text" /\ probe.returned.kind = "text"

\* C21 as stated: after updateUrlWithGraph(x), loadGraphFromUrl(d) returns x,
\* for every source x, default d and codec (decompress inverts compress for
\* each of the codecs).
C21_RoundTripEverySource ==
    LoadedAfterUpdate => probe.returned.text = probe.graphData.text

\* The compressed text comes back from the query string as decompress needs
\* it: it holds no "&", "#" or "%", and the decompressor reads a blank as the
\* "+" it was.
SurvivesQuery(codec, compressed) ==
    /\ \A i \in DOMAIN compressed : compressed[i] \notin {"&", "#", "%"}
    /\ decompressFromEncodedURIComponent(codec, PlusToBlank(compressed))
           = decompressFromEncodedURIComponent(codec, compressed)

\* C21: after updateUrlWithGraph(x) with a source x that is not empty and
\* whose compressed text survives the query string, loadGraphFromUrl(d)
\* returns x whatever d is; and after updateUrlWithGraph("") it returns d.
C21_RoundTripNonEmptySource ==
    LoadedAfterUpdate
    => \A x \in {probe.graphData.text} :
          /\ (x # <<>> /\ SurvivesQuery(probe.codec,
                              compressToEncodedURIComponent(probe.codec, x)))
             => probe.returned.text = x
          /\ x = <<>> => probe.returned.text = probe.defaultDotSource

\* C21's case: the source "a&" went through the library's codec and the URL
\* and came back although the default is another text.
C21_Witness ==
    /\ probe.op = "url" /\ probe.codec = "lz null"
    /\ probe.graphData = Text(<<"a", "&">>)
    /\ probe.defaultDotSource = <<"d">>
    /\ probe.returned = Text(<<"a", "&">>)

\* What the URL carries.
Carried(name) == SearchParamGet(probe.search, name)

\* Decoding the carried value fails: the decoder raises, or yields null or
\* the empty text.
DecompressFails(value) ==
    \/ decompressFromEncodedURIComponent(probe.codec, value.text).kind # "text"
    \/ decompressFromEncodedURIComponent(probe.codec, value.text).text = <<>>

DecodeFails(value) ==
    \/ decodeURIComponent(value.text).kind # "text"
    \/ decodeURIComponent(value.text).text = <<>>

\* C22 as stated: the default when the URL carries neither parameter or the
\* decoding of the parameter fails, otherwise the decoded parameter, a carried
\* 'c' going before 'graph'.
C22_CarriedCompressedGoesFirst ==
    probe.op = "url" /\ probe.returned.kind = "text"
    => \A c \in {Carried(<<"c">>)} : \A g \in {Carried(GraphName)} :
          IF c.kind = "text"
          THEN IF DecompressFails(c)
               THEN probe.returned.text = probe.defaultDotSource
               ELSE probe.returned =
                        decompressFromEncodedURIComponent(probe.codec, c.text)
          ELSE IF g.kind = "text"
          THEN IF DecodeFails(g)
               THEN probe.returned.text = probe.defaultDotSource
               ELSE probe.returned = decodeURIComponent(g.text)
          ELSE probe.returned.text = probe.defaultDotSource

\* C22: the same with a 'c' (and a 'graph') that is carried empty counting as
\* not carried: an empty 'c' leaves the decision to 'graph'.
C22_NonEmptyCompressedGoesFirst ==
    probe.op = "url" /\ probe.returned.kind = "text"
    => \A c \in {Carried(<<"c">>)} : \A g \in {Carried(GraphName)} :
          IF c.kind = "text" /\ c.text # <<>>
          THEN IF DecompressFails(c)
               THEN probe.returned.text = probe.defaultDotSource
               ELSE probe.returned =
                        decompressFromEncodedURIComponent(probe.codec, c.text)
          ELSE IF g.kind = "text" /\ g.text # <<>>
          THEN IF DecodeFails(g)
               THEN probe.returned.text = probe.defaultDotSource
               ELSE probe.returned = decodeURIComponent(g.text)
          ELSE probe.returned.text = probe.defaultDotSource

\* C22's case: the page was opened with ?c=aa, which the decompressor raises
\* on, and loadGraphFromUrl returned the default.
C22_Witness ==
    /\ probe.op = "url" /\ probe.codec = "lz throw"
    /\ probe.search = <<"?", "c", "=", "a", "a">>
    /\ probe.graphData = Null
    /\ probe.defaultDotSource = <<"d">>
    /\ probe.returned = Text(<<"d">>)

\* ---------------------------------------------------------------- shareGraph

\* Most calls of shareGraph in a run.
MaxShares == 2

\* The label of #share-graph in index.html, and the temporary one.
ShareLabel == "Share Graph"
LinkCopied == "Link Copied!"

\* The sources shared.
ShareSources == {<<"a">>, <<"a", "&">>}

\* window.location.origin + window.location.pathname (the path "/" here),
\* then '?c=' + compressedGraph.
ShareableUrl(codec, dotSource) == <<"/">> \o QueryFor(codec, dotSource)

\* What shareGraph's callbacks work on: the button's text, the pending
\* restore timers (each with the originalText its closure holds, in the order
\* they were set and so in the order they fire), the URLs passed to alert and
\* the number of console.error calls.
ShareUi(textContent, timers, alerts, errors) ==
    [textContent |-> textContent, timers |-> timers, alerts |-> alerts, errors |-> errors]

\* A rejection handler that announces success like the fulfilment handler.
catchHandlerShowsCopied(ui, shareableUrl) ==
    [ui EXCEPT !.textContent = LinkCopied, !.timers = Append(@, ui.textContent)]

\* .then(() => { ... }): remember the text, show "Link Copied!", set the timer.
thenHandler(ui) ==
    [ui EXCEPT !.textContent = LinkCopied, !.timers = Append(@, ui.textContent)]

\* .catch(err => { ... }): console.error and alert with the URL.
catchHandler(ui, shareableUrl) ==
    [ui EXCEPT !.errors = @ + 1, !.alerts = Append(@, shareableUrl)]

\* The timer callback: button.textContent = originalText.
restoreHandler(ui) ==
    [ui EXCEPT !.textContent = Head(ui.timers), !.timers = Tail(ui.timers)]

\* Kept in probe: the codec, the button and the callbacks' effects, the URLs
\* of the clipboard writes not yet settled, the number of shareGraph calls and
\* of settled writes, whether a write was rejected, and the last step.
ShareState(codec, ui, writes, calls, settled, rejected, last) ==
    [op |-> "share", codec |-> codec, ui |-> ui, writes |-> writes, calls |-> calls,
     settled |-> settled, rejected |-> rejected, last |-> last]

InitShare ==
    /\ Loaded(ExampleGraph)
    /\ currentSelection = <<>>
    /\ \E codec \in Codecs :
           probe = ShareState(codec, ShareUi(ShareLabel, <<>>, <<>>, 0), <<>>, 0, 0,
                              FALSE, "init")

\* shareGraph(dotSource, button) up to navigator.clipboard.writeText.
ShareGraph(dotSource) ==
    /\ probe.calls < MaxShares
    /\ probe' = [probe EXCEPT !.writes = Append(@, ShareableUrl(probe.codec, dotSource)),
                              !.calls = @ + 1,
                              !.last = "call"]
    /\ GraphUntouched

\* The sequence without its i-th element.
Without(s, i) == SubSeq(s, 1, i - 1) \o SubSeq(s, i + 1, Len(s))

\* A clipboard write is fulfilled.
ClipboardResolves(i) ==
    /\ i \in DOMAIN probe.writes
    /\ probe' = [probe EXCEPT !.ui = thenHandler(probe.ui),
                              !.writes = Without(@, i),
                              !.settled = @ + 1,
                              !.last = "copied"]
    /\ GraphUntouched

\* A clipboard write is rejected.
ClipboardRejects(i) ==
    /\ i \in DOMAIN probe.writes
    /\ probe' = [probe EXCEPT !.ui = catchHandler(probe.ui, probe.writes[i]),
                              !.writes = Without(@, i),
                              !.settled = @ + 1,
                              !.rejected = TRUE,
                              !.last = "rejected"]
    /\ GraphUntouched

\* The oldest 2000 ms timer fires.
RestoreTimer ==
    /\ probe.ui.timers # <<>>
    /\ probe' = [probe EXCEPT !.ui = restoreHandler(probe.ui), !.last = "restored"]
    /\ GraphUntouched

NextShare ==
    \/ \E dotSource \in ShareSources : ShareGraph(dotSource)
    \/ \E i \in 1..MaxShares : ClipboardResolves(i)
    \/ \E i \in 1..MaxShares : ClipboardRejects(i)
    \/ RestoreTimer

SpecShare == InitShare /\ [][NextShare]_vars

\* C23: once every clipboard write of a run of shareGraph calls has been
\* fulfilled and every restore timer has fired, the button shows the label it
\* had before the first call.
C23_LabelRestoredAfterAllTimers ==
    (/\ probe.calls >= 1 /\ ~probe.rejected
     /\ probe.writes = <<>> /\ probe.ui.timers = <<>>)
    => probe.ui.textContent = ShareLabel

\* C24: the step that handles a rejected clipboard write leaves the button's
\* text and the restore timers as they are, logs one console error and raises
\* one alert, which carries the URL of the write.
C24_RejectedWriteOnlyReports ==
    [][(probe'.last = "rejected" /\ probe'.settled = probe.settled + 1)
       => /\ probe'.ui.textContent = probe.ui.textContent
          /\ probe'.ui.timers = probe.ui.timers
          /\ probe'.ui.errors = probe.ui.errors + 1
          /\ Len(probe'.ui.alerts) = Len(probe.ui.alerts) + 1
          /\ \E i \in DOMAIN probe.writes :
                /\ probe'.ui.alerts[Len(probe'.ui.alerts)] = probe.writes[i]
                /\ probe'.writes = Without(probe.writes, i)]_vars

\* C24's case: a first write was fulfilled, and while "Link Copied!" is shown
\* and its timer pending the second write was rejected: the text and the
\* timer are as before, and there is one error and one alert with the URL.
C24_Witness ==
    /\ probe.op = "share" /\ probe.codec = "lz null" /\ probe.last = "rejected"
    /\ probe.ui = ShareUi(LinkCopied, <<ShareLabel>>,
                          <<ShareableUrl("lz null", <<"a", "&">>)>>, 1)
    /\ probe.writes = <<>>

\* ------------------------------ direct calls: the recursive Parser helpers
\* Parser.findDownstreamNodes / findUpstreamNodes run call by call (the call
\* stack is explicit), followed by traverseConnections on the same graph,
\* start node, direction and hop bound.

\* Every edge list of at most MaxEdges edges on NumNodes nodes, in every
\* order, self-loops and repeated edges included; the start node is node 1.
OrderedGraphs ==
    {Graph(NumNodes, es, <<>>, {1}) :
        es \in UNION {[1..k -> (1..NumNodes) \X (1..NumNodes)] : k \in 0..MaxEdges}}

FindGraphs == OrderedGraphs \cup {ExampleGraph, ShortcutGraph, CycleGraph}

\* The hop bounds of the callers: the slider values and Number.MAX_SAFE_INTEGER.
FindHops == (1..(MaxProbeHops - 1)) \cup {MAX_SAFE_INTEGER}

\* The hop map the caller passes: seeded with the start node at 0, as the
\* earlier updateView does, or a new Map().
HopSeeds(startNodeId) == {(startNodeId :> 0), <<>>}

\* One activation of findDownstreamNodes / findUpstreamNodes: its serviceId,
\* its currentHops and the part of directDependencies forEach has yet to visit.
Frame(direction, serviceId, currentHops) ==
    [serviceId |-> serviceId, currentHops |-> currentHops,
     dependencies |-> DirectDependencies(direction, serviceId)]

\* Entering the function: "if (currentHops >= maxHops) return" or a new
\* activation on the stack.
Enter(direction, serviceId, r, maxHops, stack) ==
    LET currentHops == HopsOr(r.hopsMap, serviceId, 0)
    IN  IF currentHops >= maxHops THEN stack
        ELSE <<Frame(direction, serviceId, currentHops)>> \o stack

InitFind ==
    \E g \in FindGraphs, direction \in {"downstream", "upstream"},
       maxHops \in FindHops :
      \E startNodeId \in g.starts :
        \E hopsMap \in HopSeeds(startNodeId) :
          /\ Loaded(g)
          /\ currentSelection = <<>>
          /\ probe = [op |-> "find nodes", phase |-> "call",
                      direction |-> direction, startNodeId |-> startNodeId,
                      maxHops |-> maxHops, seed |-> hopsMap,
                      r |-> [resultSet |-> {}, hopsMap |-> hopsMap],
                      stack |-> <<>>, calls |-> 0]

\* The caller calls the helper for the start node.
FindCall ==
    /\ probe.op = "find nodes" /\ probe.phase = "call"
    /\ probe' = [probe EXCEPT !.phase = "recursing", !.calls = 1,
                              !.stack = Enter(probe.direction, probe.startNodeId,
                                              probe.r, probe.maxHops, <<>>)]
    /\ UnchangedByProbe

\* One step of the innermost activation: the callback of forEach for the next
\* dependency (with the recursive call it may make), or the return when
\* forEach is through.
FindStep ==
    /\ probe.op = "find nodes" /\ probe.phase = "recursing"
    /\ probe.stack # <<>>
    /\ LET top == Head(probe.stack)
       IN  IF top.dependencies = <<>>
           THEN probe' = [probe EXCEPT !.stack = Tail(@)]
           ELSE LET id    == Head(top.dependencies)
                    hops  == top.currentHops + 1
                    rest  == <<[top EXCEPT !.dependencies = Tail(@)]>> \o Tail(probe.stack)
                    found == [resultSet |-> probe.r.resultSet \cup {id},
                              hopsMap   |-> (id :> hops) @@ probe.r.hopsMap]
                IN  IF id \notin DOMAIN probe.r.hopsMap \/ probe.r.hopsMap[id] > hops
                    THEN IF hops < probe.maxHops
                         THEN probe' = [probe EXCEPT
                                  !.r = found, !.calls = @ + 1,
                                  !.stack = Enter(probe.direction, id, found,
                                                  probe.maxHops, rest)]
                         ELSE probe' = [probe EXCEPT !.r = found, !.stack = rest]
                    ELSE probe' = [probe EXCEPT !.stack = rest]
    /\ UnchangedByProbe

\* The outermost activation has returned; the same traversal is now made
\* with traverseConnections, its node set seeded with the start node.
FindReturn ==
    /\ probe.op = "find nodes" /\ probe.phase = "recursing"
    /\ probe.stack = <<>>
    /\ probe' = [op |-> "traverseConnections", phase |-> "call",
                 direction |-> probe.direction, startNodeId |-> probe.startNodeId,
                 maxHops |-> probe.maxHops, connections |-> NoConnections,
                 t |-> TraverseStart(probe.startNodeId, {probe.startNodeId}, {}, {}),
                 seed |-> probe.seed, r |-> probe.r, calls |-> probe.calls]
    /\ UnchangedByProbe

NextFind ==
    \/ FindCall
    \/ FindStep
    \/ FindReturn
    \/ TraverseCall
    \/ TraverseStep
    \/ TraverseReturn

SpecFind == InitFind /\ [][NextFind]_vars

\* Every call runs to completion without interruption: a step that can be
\* taken is taken.
SpecFindFair == SpecFind /\ WF_vars(NextFind)

\* The helpers have returned (the traversal with traverseConnections follows).
FindReturned == probe.op = "traverseConnections" /\ "seed" \in DOMAIN probe

\* Both traversals of the run have returned.
BothReturned == FindReturned /\ probe.phase = "returned"

\* The two ways of running the helpers agree: call by call, and as the
\* function FindNodes.
StepwiseIsFindNodes ==
    FindReturned =>
        probe.r = FindNodes(probe.direction, probe.startNodeId,
                            [resultSet |-> {}, hopsMap |-> probe.seed], probe.maxHops)

\* The start node as the running traversal has it: its entry in the hop map
\* of the helpers (a missing entry reads as 0 in "hopsMap.get(serviceId) || 0")
\* while they run, its entry in visited while traverseConnections runs.
StartHops ==
    IF probe.op = "find nodes"
    THEN HopsOr(probe.r.hopsMap, probe.startNodeId, 0)
    ELSE probe.t.visited[probe.startNodeId]

\* C25: in every traversal (traverseConnections and the recursive helpers,
\* whatever hop map the caller passed, cycles included) the start node has
\* hop distance 0 at every step and in the result, and the start node is in
\* the highlighted node set of its own selection.
C25_StartKeepsHopZero ==
    /\ probe.op \in {"find nodes", "traverseConnections"} => StartHops = 0
    /\ probe.op = "traverseConnections" => probe.startNodeId \in probe.t.nodesToHighlight
    /\ FindReturned => /\ probe.startNodeId \in DOMAIN probe.r.hopsMap
                          => probe.r.hopsMap[probe.startNodeId] = 0
                       /\ probe.startNodeId \notin probe.r.resultSet

\* The same with a hop map that holds the start node at 0, as every caller
\* in the repository passes it.
C25_SeededStartKeepsHopZero ==
    probe.op \in {"find nodes", "traverseConnections"} /\ probe.seed # <<>>
        => C25_StartKeepsHopZero

\* A cycle through the start node was followed with a seeded hop map, and
\* both traversals have returned.
C25_SeededCycleDone ==
    /\ BothReturned
    /\ probe.seed # <<>>
    /\ probe.maxHops >= 2
    /\ \E i, j \in DOMAIN edges :
          /\ edges[i].source = probe.startNodeId /\ edges[i].target # probe.startNodeId
          /\ edges[j].source = edges[i].target /\ edges[j].target = probe.startNodeId

\* The entries traverseConnections pushes on its queue in the step taken.
Enqueued == SubSeq(probe'.t.queue, Len(probe.t.queue), Len(probe'.t.queue))

\* A step of the running traverseConnections enqueues only nodes that were
\* never enqueued before: none that is in visited (the start node is from
\* the beginning, every other node from the moment it is enqueued), none
\* twice, and visited forgets no node.
EnqueuesOnlyNewNodes ==
    probe.op = "traverseConnections" /\ probe.phase = "loop" /\ probe'.phase = "loop"
        => /\ probe'.t.queue = Tail(probe.t.queue) \o Enqueued
           /\ \A i \in DOMAIN Enqueued :
                 /\ Enqueued[i].id \notin DOMAIN probe.t.visited
                 /\ Enqueued[i].id \in DOMAIN probe'.t.visited
                 /\ \A j \in DOMAIN Enqueued : Enqueued[j].id = Enqueued[i].id => j = i
           /\ DOMAIN probe.t.visited \subseteq DOMAIN probe'.t.visited

\* C28: every traversal run terminates on every finite graph, cycles and the
\* largest hop bound included: the recursive helpers return after finitely
\* many calls, traverseConnections returns, and it enqueues each node at
\* most once per run.
C28_TraversalsTerminate ==
    /\ <>BothReturned
    /\ [][EnqueuesOnlyNewNodes]_vars

\* Both traversals have returned from a cycle through the start node that
\* they followed with the largest hop bound.
C28_Witness ==
    /\ BothReturned
    /\ probe.maxHops = MAX_SAFE_INTEGER
    /\ probe.calls >= 3
    /\ probe.startNodeId \in {edges[i].target : i \in DOMAIN edges}
    /\ Cardinality(DOMAIN probe.t.visited) >= 3

\* The graph has no edge from a node to itself.
NoSelfLoops == \A i \in DOMAIN edges : edges[i].source # edges[i].target

\* C29: on a graph without self-loops, for every start node and hop bound
\* k >= 1 and whatever the order of the edge list, the recursive helper
\* called with a hop map seeded {s: 0} returns the same reached node set and
\* the same hop distance per node as traverseConnections run in the same
\* direction.
C29_RecursionAgreesWithBfs ==
    BothReturned /\ NoSelfLoops /\ probe.seed = (probe.startNodeId :> 0)
        => /\ probe.r.hopsMap = probe.t.visited
           /\ probe.r.resultSet \cup {probe.startNodeId} = probe.t.nodesToHighlight
           /\ probe.r.resultSet = DOMAIN probe.t.visited \ {probe.startNodeId}

\* Both traversals have returned from a graph without self-loops whose edge
\* list holds a two-hop path before the one-hop shortcut to the same node:
\* the helper first records the node at hop 2 and later at hop 1.
C29_Witness ==
    /\ BothReturned /\ NoSelfLoops /\ probe.seed = (probe.startNodeId :> 0)
    /\ probe.direction = "downstream"
    /\ probe.maxHops >= 2
    /\ Len(edges) = 3
    /\ edges[1].source = probe.startNodeId
    /\ edges[2].source = edges[1].target
    /\ edges[3].source = probe.startNodeId /\ edges[3].target = edges[2].target
    /\ edges[2].target \notin {probe.startNodeId, edges[1].target}
    /\ probe.r.hopsMap[edges[2].target] = 1

\* ------------------------------------------ activation during a render

\* C26: when a node was activated while a render started by updateGraph was
\* in flight, then once the renderer's "end" event has been handled the
\* displayed highlight state is the one computed from the current selection
\* list. When "end" is handled for a drawing of the source (not the error
\* graph), a selection list that is not empty was filled during the render:
\* updateGraph emptied it before it started the render.
C26_RenderEndShowsSelection ==
    (lastEvent.type = "renderEnd" /\ rendering.kind = "idle"
        /\ svg # ErrorSvg /\ currentSelection # <<>>)
        => SameClasses(CurrentCls, applySelections(CurrentCls, currentSelection))

\* The input events of the page: node clicks, dropdown, view mode, hop limit,
\* unlimited hops, reset, Escape, source update.
InputEvents == {"click", "select", "mode", "hop", "unlimited", "reset", "escape", "source"}

\* C27: after every fully handled input event the displayed highlight state
\* (the classes of nodes, edges and clusters) equals the composite view of
\* the current selection list.
C27_DisplayIsCompositeOfSelections ==
    lastEvent.type \in InputEvents
        => SameClasses(CurrentCls, applySelections(CurrentCls, currentSelection))

\* ------------------------------------------------- cluster highlighting

\* The nodes updateView highlights for one selection (none for mode "all",
\* where it returns before anything is classed).
NodesOfSelection(selection) ==
    IF selection.viewMode = "all" THEN {}
    ELSE ViewSets(selection.nodeId, selection.viewMode,
                  NormalizeMaxHops(selection.maxHops)).nodesToHighlight

\* The cluster classes once the first k selections of the list are processed.
ClustersAfter(k) ==
    ForEachSelection(resetHighlights(CurrentCls), SubSeq(currentSelection, 1, k)).cluster

\* applySelections has run on a list with a selection whose mode is not "all".
AppliedSomeView ==
    /\ probe.op = "applySelections" /\ probe.phase = "applied"
    /\ \E i \in DOMAIN currentSelection : currentSelection[i].viewMode # "all"

\* C30: after applySelections on a list with at least one selection whose
\* mode is not "all", a non-legend cluster is highlighted if and only if it
\* contains a node highlighted by at least one selection, and is faded
\* otherwise; a cluster highlighted while an earlier selection was processed
\* is neither un-highlighted nor faded by a later one.
C30_ClusterFollowsItsNodes ==
    AppliedSomeView =>
        \A c \in DOMAIN svg.clusters :
            ~IsLegend(svg.clusters[c]) =>
                /\ "highlighted-cluster" \in clusterCls[c]
                      <=> \E i \in DOMAIN currentSelection :
                             svg.clusters[c].nodes \cap NodesOfSelection(currentSelection[i]) # {}
                /\ "faded-cluster" \in clusterCls[c]
                      <=> "highlighted-cluster" \notin clusterCls[c]
                /\ \A k \in DOMAIN currentSelection :
                      "highlighted-cluster" \in ClustersAfter(k)[c]
                          => /\ "highlighted-cluster" \in clusterCls[c]
                             /\ "faded-cluster" \notin clusterCls[c]

\* applySelections has run on two selections: the first highlights a node of
\* a non-legend cluster, the second highlights none of its nodes.
C30_Witness ==
    /\ AppliedSomeView
    /\ Len(currentSelection) = 2
    /\ currentSelection[2].viewMode # "all"
    /\ \E c \in DOMAIN svg.clusters :
          /\ ~IsLegend(svg.clusters[c])
          /\ svg.clusters[c].nodes \cap NodesOfSelection(currentSelection[1]) # {}
          /\ svg.clusters[c].nodes \cap NodesOfSelection(currentSelection[2]) = {}
          /\ "highlighted-cluster" \in clusterCls[c]

\* --------------------------------------------------------- legend clusters

\* C31: whenever a selection is active, after each fully handled node click,
\* hop-limit change or view-mode change every legend cluster and every node
\* and edge inside it is highlighted and not faded.
C31_LegendAlwaysHighlighted ==
    (lastEvent.type \in {"click", "hop", "unlimited", "mode"} /\ currentSelection # <<>>)
        => \A c \in DOMAIN svg.clusters :
              IsLegend(svg.clusters[c]) =>
                 /\ "highlighted-cluster" \in clusterCls[c]
                 /\ "faded-cluster" \notin clusterCls[c]
                 /\ \A n \in svg.clusters[c].nodes \cap DOMAIN nodeCls :
                       "highlighted" \in nodeCls[n] /\ "faded" \notin nodeCls[n]
                 /\ \A e \in svg.clusters[c].edges \cap DOMAIN edgeCls :
                       "highlighted" \in edgeCls[e] /\ "faded" \notin edgeCls[e]

\* ------------------------------------------- direct calls: parseDotSource

MaxStmts == 2

\* The statements of the sources parsed: node statements with and without a
\* bracket block, edge statements with and without one, over two identifiers.
ParsedStmts ==
    {NodeStmt(id, attrs) : id \in {1, 2}, attrs \in {"none", "plain", "invis"}}
        \cup {EdgeStmt(s, t, attrs) : s \in {1, 2}, t \in {1, 2}, attrs \in {"none", "plain"}}

ParsedSources ==
    {[stmts |-> stmts, clusters |-> <<>>, hasLayout |-> TRUE, valid |-> TRUE] :
        stmts \in UNION {[1..n -> ParsedStmts] : n \in 0..MaxStmts}}

InitParse ==
    /\ Loaded(ExampleGraph)
    /\ currentSelection = <<>>
    /\ \E dotSource \in ParsedSources :
          probe = [op |-> "parseDotSource", phase |-> "call", dotSource |-> dotSource,
                   returned |-> [nodes |-> <<>>, edges |-> <<>>]]

\* Parser.parseDotSource(dotSource)
ParseCall ==
    /\ probe.op = "parseDotSource" /\ probe.phase = "call"
    /\ probe' = [probe EXCEPT !.phase = "returned",
                              !.returned = ParseDotSource(probe.dotSource)]
    /\ GraphUntouched

NextParse == ParseCall

SpecParse == InitParse /\ [][NextParse]_vars

\* C32: the node list parseDotSource returns holds each node identifier at
\* most once; in particular an edge statement with an attribute block adds
\* no entry for its target.
C32_ParsedNodeIdsUnique ==
    probe.op = "parseDotSource" /\ probe.phase = "returned"
        => /\ \A i, j \in DOMAIN probe.returned.nodes :
                 probe.returned.nodes[i].id = probe.returned.nodes[j].id => i = j
           /\ Len(probe.returned.nodes)
                 <= Cardinality({k \in DOMAIN probe.dotSource.stmts :
                                    probe.dotSource.stmts[k].kind = "node"})

\* ------------------------------------------------------------ cancellation

\* The classes of the step's new state.
NextCls ==
    [node |-> nodeCls', edge |-> edgeCls', cluster |-> clusterCls', edgeStyle |-> edgeStyle']

\* C33: after Escape is handled, and until the next node click or dropdown
\* change, every node and edge stays neutral under hop-limit changes,
\* unlimited-hops toggles and view-mode changes; here for the first such
\* change after Escape.
C33_CancelledSelectionStaysCancelled ==
    [][(lastEvent.type = "escape" /\ lastEvent'.type \in {"hop", "unlimited", "mode"})
          => NoHighlightClasses(NextCls)]_vars

\* ------------------------------------------------- the selection list

\* A step keeps the order of insertion: two nodes that are in the list before
\* and after the step keep their relative position, and a node that enters
\* the list in a step that keeps other entries comes after them.
KeepsInsertionOrder ==
    \A i, j \in DOMAIN currentSelection' :
        i < j =>
            \A k \in DOMAIN currentSelection :
                currentSelection[k].nodeId = currentSelection'[j].nodeId
                    => \E l \in 1..(k - 1) :
                          currentSelection[l].nodeId = currentSelection'[i].nodeId

\* No two selections of the list have the same nodeId.
NoDuplicateNodeIds ==
    \A i, j \in DOMAIN currentSelection :
        currentSelection[i].nodeId = currentSelection[j].nodeId => i = j

\* C34: in every reachable state no two selections in the selection list
\* have the same nodeId, and every step keeps the entries of the list in
\* their order of insertion.
C34_SelectionListIsOrderedSet ==
    /\ []NoDuplicateNodeIds
    /\ [][KeepsInsertionOrder]_vars

\* The list holds two selections in the order they were clicked, and a
\* modifier click on the first of them has just been handled.
C34_Witness ==
    /\ Len(currentSelection) = 2
    /\ lastEvent.type = "click" /\ lastEvent.additive
    /\ lastEvent.nodeId = currentSelection[1].nodeId

\* ------------------------------------------- edges and their end nodes

\* applySelections has run on the list.
AppliedSelections == probe.op = "applySelections" /\ probe.phase = "applied"

ExactlyOneOf(classes) == ("highlighted" \in classes) # ("faded" \in classes)

\* The nodes and edges inside a legend cluster.
LegendNodes == UNION {svg.clusters[c].nodes : c \in {d \in DOMAIN svg.clusters : IsLegend(svg.clusters[d])}}
LegendEdges == UNION {svg.clusters[c].edges : c \in {d \in DOMAIN svg.clusters : IsLegend(svg.clusters[d])}}

\* C36: after applySelections on a list with at least one selection whose
\* mode is not "all", every node and every edge is exactly one of highlighted
\* or faded; after applySelections on a list where every selection has mode
\* "all", no node or edge outside a legend cluster is highlighted or faded.
C36_HighlightedXorFaded ==
    AppliedSelections =>
        IF \E i \in DOMAIN currentSelection : currentSelection[i].viewMode # "all"
        THEN /\ \A n \in DOMAIN nodeCls : ExactlyOneOf(nodeCls[n])
             /\ \A e \in DOMAIN edgeCls : ExactlyOneOf(edgeCls[e])
        ELSE /\ \A n \in DOMAIN nodeCls \ LegendNodes :
                   nodeCls[n] \cap {"highlighted", "faded"} = {}
             /\ \A e \in DOMAIN edgeCls \ LegendEdges :
                   edgeCls[e] \cap {"highlighted", "faded"} = {}

\* applySelections has run on two selections of which the first fades a
\* node of the legend cluster and an edge that the second highlights.
C36_Witness ==
    /\ AppliedSelections
    /\ Len(currentSelection) = 2
    /\ currentSelection[1].viewMode # "all" /\ currentSelection[2].viewMode # "all"
    /\ \E n \in LegendNodes : n \notin NodesOfSelection(currentSelection[1])
    /\ \E e \in DOMAIN svg.edges :
          /\ svg.edges[e][2] \notin NodesOfSelection(currentSelection[1])
          /\ "highlighted" \in edgeCls[e]
    /\ \E e \in DOMAIN edgeCls : "faded" \in edgeCls[e]

\* ----------------------------------------------- order of the selections

\* The list in reverse order.
Reversed(selections) ==
    [i \in DOMAIN selections |-> selections[Len(selections) + 1 - i]]

\* C37: the result of applySelections does not depend on the order of the
\* selections: for the same selections in another order every node ends with
\* the same highlighted, faded and selected flags and every edge with the
\* same highlighted and faded flags and the same direct-connection flag.
C37_OrderOfSelectionsIrrelevant ==
    AppliedSelections =>
        \A other \in {applySelections(CurrentCls, Reversed(currentSelection))} :
            /\ nodeCls = other.node
            /\ edgeCls = other.edge

\* The same without the direct-connection flag of the edges.
C37_OrderIrrelevantButDirectFlag ==
    AppliedSelections =>
        \A other \in {applySelections(CurrentCls, Reversed(currentSelection))} :
            /\ nodeCls = other.node
            /\ \A e \in DOMAIN edgeCls :
                  edgeCls[e] \ {"selected-arrow"} = other.edge[e] \ {"selected-arrow"}
            /\ clusterCls = other.cluster

\* ------------------------------------------------- the adjacency index

\* The edges of the current graph source.
SourceEdges == Range(StmtEdges(currentDotSource.stmts))

\* The edges s->t of the adjacency index getGraphConnections builds.
IndexedEdges ==
    LET connections == getGraphConnections
    IN  UNION {{<<s, connections.outgoing[s][i]>> : i \in DOMAIN connections.outgoing[s]} :
                  s \in DOMAIN connections.outgoing}
        \cup UNION {{<<connections.incoming[t][i], t>> : i \in DOMAIN connections.incoming[t]} :
                       t \in DOMAIN connections.incoming}

\* C38: at a node activation between an updateGraph call and the renderer's
\* "end" event, the adjacency index used for the traversal holds an edge
\* s->t only if s->t is an edge of the current graph source, and no edge of
\* the previous graph still on screen is highlighted. (The drawing and the
\* edge list are the ones the click handler read: a click changes neither.)
C38_IndexHoldsOnlySourceEdges ==
    (lastEvent.type = "click" /\ rendering.kind = "dot")
        => /\ IndexedEdges \subseteq SourceEdges
           /\ \A i \in DOMAIN edgeCls :
                 "highlighted" \in edgeCls[i] => svg.edges[i] \in SourceEdges

\* --------------------------------------------- the lists of App and Graph

\* C39: after every App.updateDotSource call the node and edge lists held by
\* App equal the ones held by Graph (Graph.getNodes / Graph.getEdges),
\* including when updateGraph caught an exception.
C39_AppListsEqualGraphLists ==
    lastEvent.type \in {"source", "sourceFailed"}
        => appNodes = nodes /\ appEdges = edges

\* ------------------------------------------------------------ auto-apply

\* The step taken is a callback of the preview run p that calls
\* onApplyChanges (which starts the render of the applied source).
AppliesInRun(p) ==
    /\ PreviewEnd(p) \/ PreviewTimeout(p)
    /\ rendering.kind = "idle" /\ rendering'.kind = "dot"

\* C40: with auto-apply enabled each editor content that settles is applied
\* at most once: a validation run that started before a later content change
\* never invokes onApplyChanges (also when the content was edited away and
\* back to the same text while the run was pending), and within one run the
\* "end" event, the error callback and the fallback timer invoke it at most
\* once (a run that applies has not completed before and has afterwards).
C40_SettledContentAppliedOnce ==
    [][\A p \in probe.previews :
          AppliesInRun(p) =>
              /\ ~p.stale
              /\ ~p.validationCompleted
              /\ \A q \in probe'.previews :
                    q.content = p.content /\ q.stale = p.stale => q.validationCompleted]_vars

====
